---- MODULE Spec2Model ----
(***************************************************************************)
(* A model of composepack: the release store (internal/core/release), the  *)
(* chart loader (internal/core/chart) and the workflows, the values build, *)
(* the fragment merge and the diff report of internal/app.                 *)
(*                                                                         *)
(* Go strings are sequences of one-character strings; "xFF" stands for a   *)
(* byte that is not valid UTF-8 and "uFFFD" for the replacement character. *)
(* A file's content is a sequence of tokens [k |-> key, v |-> value], one  *)
(* per line of the indented JSON document, between the tokens "{" and "}". *)
(* SHA-256 is taken to be collision free: a digest is the marker "sha256"  *)
(* followed by the bytes that were hashed, and stands for their hex form.  *)
(***************************************************************************)
EXTENDS Integers, Sequences, FiniteSets, TLC

VARIABLES
    clock,      \* the wall clock time.Now() reads
    dirExists,  \* whether the runtime directory exists
    links,      \* the runtime directory's entries: [final, temp] -> inode (0: none)
    inodes,     \* inode -> content (a sequence of tokens)
    initial,    \* history: the content of release.json in the initial state
    sv,         \* the Store.Save calls, one per saver
    ld,         \* the Store.Load call
    df,         \* the call of showDiffOutput: its arguments and its report
    vb,         \* the call of buildValues: its arguments, its locals and its result
    cl,         \* the call of CompositeLoader.Load and the temporary files it owns
    mf,         \* the call of mergeFragments and its scratch directory
    ap,         \* the call of an Application workflow (install, apply, ..., diff)
    rt,         \* the release's runtime directory: docker-compose.yaml and files/
    rn          \* the call of the compose Runner and the subprocesses it ran

storeVars == <<clock, dirExists, links, inodes, initial, sv, ld>>

pipeVars == <<vb, cl, mf, ap, rt, rn>>

vars == <<clock, dirExists, links, inodes, initial, sv, ld, df, vb, cl, mf, ap, rt, rn>>

(***************************************************************************)
(* Bounds                                                                  *)
(***************************************************************************)
MaxSec == 2         \* the clock runs over the seconds 1..MaxSec
MaxNsec == 1        \* and the sub-second ticks 0..MaxNsec
NumInodes == 5      \* inodes of the modelled file system
WriteChunk == 4     \* tokens a short write(2) transfers

(***************************************************************************)
(* Time                                                                    *)
(***************************************************************************)
ZeroTime == [year |-> 1, sec |-> 0, nsec |-> 0]

IsZero(t) == t = ZeroTime

ClockTimes == [year : {2025}, sec : 1..MaxSec, nsec : 0..MaxNsec]

TimeLeq(a, b) ==
    \/ a.year < b.year
    \/ a.year = b.year /\ a.sec < b.sec
    \/ a.year = b.year /\ a.sec = b.sec /\ a.nsec <= b.nsec

\* t.UTC().Format(time.RFC3339): second precision, the nanoseconds are dropped
FormatRFC3339(t) == <<ToString(t.year), "T", ToString(t.sec), "Z">>

\* Time.MarshalJSON: RFC 3339 with nanoseconds; fails when the year is not 4 digits
TimeMarshalOK(t) == t.year >= 0 /\ t.year <= 9999

TimeMarshalJSON(t) == <<ToString(t.year), ToString(t.sec), ToString(t.nsec)>>

ParseInt(s) == CHOOSE n \in {1, 2025} \cup (0..(MaxSec + MaxNsec + 9)) : ToString(n) = s

TimeUnmarshalJSON(v) ==
    [year |-> ParseInt(v[1]), sec |-> ParseInt(v[2]), nsec |-> ParseInt(v[3])]

(***************************************************************************)
(* Metadata (metadata.go:20-30) and ChartMetadata (chart.go:35-40)         *)
(***************************************************************************)
ZeroChartMetadata ==
    [Name |-> <<>>, Version |-> <<>>, Description |-> <<>>, Maintainers |-> <<>>]

ZeroMetadata ==
    [ReleaseName |-> <<>>, ChartMetadata |-> ZeroChartMetadata, ChartSource |-> <<>>,
     ChartDigest |-> <<>>, RuntimePath |-> "", CreatedAt |-> ZeroTime,
     Values |-> <<>>, ValuesSources |-> <<>>, ComposeFiles |-> <<>>]

\* Metadata.Digest with every field but the creation time
DigestNoTime(m) ==
    m.ReleaseName \o <<"NUL">> \o m.ChartMetadata.Name \o <<"NUL">>
        \o m.ChartMetadata.Version \o <<"NUL">>
        \o m.ChartMetadata.Description \o <<"NUL">>

\* Metadata.Digest hashing the chart source as a sixth field
DigestWithSource(m) ==
    [m EXCEPT !.ChartDigest =
        <<"sha256">> \o DigestNoTime(m) \o FormatRFC3339(m.CreatedAt) \o <<"NUL">>
            \o m.ChartSource \o <<"NUL">>]

\* Metadata.Digest: the five fields, each followed by a zero byte, hashed
Digest(m) ==
    [m EXCEPT !.ChartDigest =
        <<"sha256">> \o DigestNoTime(m) \o FormatRFC3339(m.CreatedAt) \o <<"NUL">>]

(***************************************************************************)
(* encoding/json as Save and Load use it                                   *)
(***************************************************************************)
\* a string value: invalid UTF-8 is coerced to U+FFFD
JsonString(s) == [i \in 1..Len(s) |-> IF s[i] = "xFF" THEN "uFFFD" ELSE s[i]]

Tok(k, v) == [k |-> k, v |-> v]

\* json.MarshalIndent(meta, "", "  "): omitempty drops an empty chartSource or values
MarshalIndent(m) ==
    <<Tok("{", <<>>),
      Tok("releaseName", JsonString(m.ReleaseName)),
      Tok("chartMetadata.Name", JsonString(m.ChartMetadata.Name)),
      Tok("chartMetadata.Version", JsonString(m.ChartMetadata.Version)),
      Tok("chartMetadata.Description", JsonString(m.ChartMetadata.Description)),
      Tok("chartMetadata.Maintainers", m.ChartMetadata.Maintainers)>>
    \o (IF m.ChartSource # <<>> THEN <<Tok("chartSource", JsonString(m.ChartSource))>>
        ELSE <<>>)
    \o <<Tok("chartDigest", m.ChartDigest),     \* hex digits: encoded as they are
         Tok("runtimePath", <<m.RuntimePath>>),
         Tok("createdAt", TimeMarshalJSON(m.CreatedAt))>>
    \o (IF m.Values # <<>> THEN <<Tok("values", m.Values)>> ELSE <<>>)
    \o <<Tok("valuesSources", m.ValuesSources),
         Tok("composeFiles", m.ComposeFiles),
         Tok("}", <<>>)>>

MarshalOK(m) == TimeMarshalOK(m.CreatedAt)

FieldKeys ==
    {"releaseName", "chartMetadata.Name", "chartMetadata.Version",
     "chartMetadata.Description", "chartMetadata.Maintainers", "chartSource",
     "chartDigest", "runtimePath", "createdAt", "values", "valuesSources",
     "composeFiles"}

\* json.Unmarshal accepts one complete object and nothing after it
UnmarshalOK(c) ==
    /\ Len(c) >= 2
    /\ c[1].k = "{"
    /\ c[Len(c)].k = "}"
    /\ \A i \in 2..(Len(c) - 1) : c[i].k \in FieldKeys

\* the value of a key (the last occurrence wins), or the zero value
FieldOf(c, key, zero) ==
    LET idx == {i \in 1..Len(c) : c[i].k = key}
    IN  IF idx = {} THEN zero
        ELSE c[CHOOSE i \in idx : \A j \in idx : j <= i].v

Unmarshal(c) ==
    [ReleaseName |-> FieldOf(c, "releaseName", <<>>),
     ChartMetadata |->
        [Name |-> FieldOf(c, "chartMetadata.Name", <<>>),
         Version |-> FieldOf(c, "chartMetadata.Version", <<>>),
         Description |-> FieldOf(c, "chartMetadata.Description", <<>>),
         Maintainers |-> FieldOf(c, "chartMetadata.Maintainers", <<>>)],
     ChartSource |-> FieldOf(c, "chartSource", <<>>),
     ChartDigest |-> FieldOf(c, "chartDigest", <<>>),
     RuntimePath |-> FieldOf(c, "runtimePath", <<"">>)[1],
     CreatedAt |-> TimeUnmarshalJSON(FieldOf(c, "createdAt", TimeMarshalJSON(ZeroTime))),
     Values |-> FieldOf(c, "values", <<>>),
     ValuesSources |-> FieldOf(c, "valuesSources", <<>>),
     ComposeFiles |-> FieldOf(c, "composeFiles", <<>>)]

(***************************************************************************)
(* Inputs                                                                  *)
(***************************************************************************)
RuntimeDir == "r1"

Contexts == {"nil", "live", "cancelled"}

Names == {<<"a">>, <<"xFF">>}

ChartOne == [Name |-> <<"c">>, Version |-> <<"1">>, Description |-> <<"d">>,
             Maintainers |-> <<>>]

ChartTwo == [Name |-> <<"c">>, Version |-> <<"2">>, Description |-> <<>>,
             Maintainers |-> <<"m">>]

\* what a render passes (app.go:464-471), and a record loaded from an earlier save
ExtraRender ==
    [ChartSource |-> <<>>, ChartDigest |-> <<>>, Values |-> <<>>,
     ValuesSources |-> <<"chart:values.yaml">>, ComposeFiles |-> <<"a.yaml">>]

ExtraStored ==
    [ChartSource |-> <<"dir">>, ChartDigest |-> <<"stale">>,
     Values |-> <<"password=s3cret">>,
     ValuesSources |-> <<"chart:values.yaml", "cli:set">>,
     ComposeFiles |-> <<"a.yaml", "b.yaml">>]

Extras == {ExtraRender, ExtraStored}

MkMeta(name, ch, t, x) ==
    [ReleaseName |-> name, ChartMetadata |-> ch, ChartSource |-> x.ChartSource,
     ChartDigest |-> x.ChartDigest, RuntimePath |-> "", CreatedAt |-> t,
     Values |-> x.Values, ValuesSources |-> x.ValuesSources,
     ComposeFiles |-> x.ComposeFiles]

SubSecond == [year |-> 2025, sec |-> 1, nsec |-> 1]
YearTenThousand == [year |-> 10000, sec |-> 1, nsec |-> 0]

StoreMetas ==
    {MkMeta(n, ChartOne, t, x) :
        n \in Names, t \in {ZeroTime, SubSecond, YearTenThousand}, x \in Extras}

OldMeta ==
    Digest(MkMeta(<<"a">>, ChartOne, [year |-> 2025, sec |-> 1, nsec |-> 0],
                  [ExtraStored EXCEPT !.Values = <<>>]))

Garbage == <<Tok("garbage", <<>>)>>

(***************************************************************************)
(* The file system of the runtime directory                                *)
(***************************************************************************)
InodeIds == 1..NumInodes

FinalName == "final"    \* release.json

\* Save's temporary file is release.json itself
TempNameInPlace == "final"

\* .release.json.tmp, a sibling of release.json
TempName == "temp"

Referenced(lk, fds) == {lk.final, lk.temp} \cup fds

FreeInode(lk, fds) ==
    CHOOSE i \in InodeIds :
        /\ i \notin Referenced(lk, fds)
        /\ \A j \in InodeIds : j < i => j \in Referenced(lk, fds)

\* the content of an inode nothing refers to is gone
Collect(ino, lk, fds) ==
    [i \in InodeIds |-> IF i \in Referenced(lk, fds) THEN ino[i] ELSE <<>>]

OpenFds == {sv[q].fd : q \in DOMAIN sv} \cup {ld.fd}

\* write(2) of bytes at an offset: the file grows, a gap reads as zero bytes
WriteAt(c, off, bytes) ==
    LET end == off + Len(bytes)
        n == IF Len(c) > end THEN Len(c) ELSE end
    IN  [i \in 1..n |->
            IF i > off /\ i <= end THEN bytes[i - off]
            ELSE IF i <= Len(c) THEN c[i]
            ELSE Tok("NUL", <<>>)]

(***************************************************************************)
(* Store.Save (metadata.go:63-107), one action per step that other         *)
(* processes can observe                                                   *)
(***************************************************************************)
Savers == {"s1", "s2"}

IdleSaver ==
    [pc |-> "idle", path |-> "", meta |-> ZeroMetadata, arg |-> ZeroMetadata,
     val |-> <<>>, deferred |-> FALSE, data |-> <<>>, off |-> 0, fd |-> 0,
     err |-> ""]

\* lines 76-80 with the digest computed before the creation time is stamped
SaveStampDigestFirst(m, path, now) ==
    LET d == Digest([m EXCEPT !.RuntimePath = path])
    IN  [d EXCEPT !.CreatedAt = IF IsZero(@) THEN now ELSE @]

\* lines 76-80: stamp the runtime path and an unset creation time, then digest
SaveStamp(m, path, now) ==
    Digest([m EXCEPT !.RuntimePath = path,
                     !.CreatedAt = IF IsZero(@) THEN now ELSE @])

\* line 88 left out: the values stay in the record that is serialized
SaveKeepValues(m) == m

\* line 88: meta.Values = nil
SaveBlankValues(m) == [m EXCEPT !.Values = <<>>]

\* the values restored on success only
SaveReturnNoDefer(s, err) ==
    [s EXCEPT !.pc = "done", !.err = err, !.fd = 0,
              !.meta.Values = IF s.deferred /\ err = "" THEN s.val ELSE @]

\* a return of Save: the deferred function of lines 89-91 restores the values
SaveReturn(s, err) ==
    [s EXCEPT !.pc = "done", !.err = err, !.fd = 0,
              !.meta.Values = IF s.deferred THEN s.val ELSE @]

\* lines 63-80: the checks, then the record is stamped and digested
SaveCall(p, ctx, path, hasMeta, m) ==
    /\ sv[p].pc = "idle"
    /\ LET s == [sv[p] EXCEPT !.path = path,
                              !.meta = IF hasMeta THEN m ELSE ZeroMetadata,
                              !.arg = IF hasMeta THEN m ELSE ZeroMetadata]
       IN  IF path = "" THEN
                /\ sv' = [sv EXCEPT ![p] = SaveReturn(s, "runtime path is required")]
                /\ clock' = clock
           ELSE IF ~hasMeta THEN
                /\ sv' = [sv EXCEPT ![p] = SaveReturn(s, "metadata must be provided")]
                /\ clock' = clock
           ELSE IF ctx = "cancelled" THEN
                /\ sv' = [sv EXCEPT ![p] = SaveReturn(s, "context canceled")]
                /\ clock' = clock
           ELSE \E now \in ClockTimes :
                /\ TimeLeq(clock, now)
                /\ clock' = IF IsZero(m.CreatedAt) THEN now ELSE clock
                /\ IsZero(m.CreatedAt) \/ now = clock
                /\ sv' = [sv EXCEPT ![p] =
                            [s EXCEPT !.pc = "mkdir",
                                      !.meta = SaveStamp(m, path, now)]]
    /\ UNCHANGED <<dirExists, links, inodes, initial, ld>>

\* lines 82-84: os.MkdirAll, which the environment may refuse
SaveMkdirAll(p) ==
    /\ sv[p].pc = "mkdir"
    /\ \/ /\ dirExists' = TRUE
          /\ sv' = [sv EXCEPT ![p].pc = "marshal"]
       \/ /\ dirExists' = dirExists
          /\ sv' = [sv EXCEPT ![p] = SaveReturn(@, "ensure runtime directory")]
    /\ UNCHANGED <<clock, links, inodes, initial, ld>>

\* lines 86-96: the values are set aside, the record is serialized
SaveMarshal(p) ==
    /\ sv[p].pc = "marshal"
    /\ LET s == [sv[p] EXCEPT !.val = sv[p].meta.Values,
                              !.meta = SaveBlankValues(sv[p].meta),
                              !.deferred = TRUE]
       IN  IF MarshalOK(s.meta)
           THEN sv' = [sv EXCEPT ![p] =
                        [s EXCEPT !.pc = "open", !.data = MarshalIndent(s.meta)]]
           ELSE sv' = [sv EXCEPT ![p] = SaveReturn(s, "serialize metadata")]
    /\ UNCHANGED <<clock, dirExists, links, inodes, initial, ld>>

\* line 99, os.WriteFile's OpenFile(O_WRONLY|O_CREATE|O_TRUNC)
SaveOpenTemp(p) ==
    /\ sv[p].pc = "open"
    /\ \/ /\ dirExists
          /\ LET old == links[TempName]
                 i == IF old # 0 THEN old ELSE FreeInode(links, OpenFds)
             IN  /\ links' = [links EXCEPT ![TempName] = i]
                 /\ inodes' = [inodes EXCEPT ![i] = <<>>]
                 /\ sv' = [sv EXCEPT ![p].pc = "write", ![p].fd = i, ![p].off = 0]
       \/ /\ sv' = [sv EXCEPT ![p] = SaveReturn(@, "write temp metadata")]
          /\ UNCHANGED <<links, inodes>>
    /\ UNCHANGED <<clock, dirExists, initial, ld>>

\* line 99, os.WriteFile's Write loop and Close: each write(2) may be short
SaveWriteTemp(p) ==
    /\ sv[p].pc = "write"
    /\ LET s == sv[p]
           left == Len(s.data) - s.off
       IN  \/ \E n \in {left, IF WriteChunk < left THEN WriteChunk ELSE left} :
                /\ inodes' = [inodes EXCEPT ![s.fd] =
                                WriteAt(@, s.off, SubSeq(s.data, s.off + 1, s.off + n))]
                /\ sv' = [sv EXCEPT ![p] =
                            IF n = left
                            THEN [s EXCEPT !.pc = "rename", !.off = s.off + n, !.fd = 0]
                            ELSE [s EXCEPT !.off = s.off + n]]
           \/ /\ sv' = [sv EXCEPT ![p] = SaveReturn(s, "write temp metadata")]
              /\ inodes' = inodes
    /\ UNCHANGED <<clock, dirExists, links, initial, ld>>

\* lines 102-106: os.Rename of the temporary file over release.json
SaveRename(p) ==
    /\ sv[p].pc = "rename"
    /\ \/ /\ links[TempName] # 0
          /\ LET lk == [[links EXCEPT ![FinalName] = links[TempName]]
                            EXCEPT ![TempName] = IF TempName = FinalName THEN @ ELSE 0]
             IN  /\ links' = lk
                 /\ inodes' = Collect(inodes, lk, OpenFds)
          /\ sv' = [sv EXCEPT ![p] = SaveReturn(@, "")]
       \/ /\ sv' = [sv EXCEPT ![p] = SaveReturn(@, "rename metadata file")]
          /\ UNCHANGED <<links, inodes>>
    /\ UNCHANGED <<clock, dirExists, initial, ld>>

(***************************************************************************)
(* Store.Load (metadata.go:36-60)                                          *)
(***************************************************************************)
IdleLoader ==
    [pc |-> "idle", path |-> "", fd |-> 0, res |-> <<>>, err |-> "",
     \* history: what the directory held and where Save stood at the call, the
     \* failure of the read and the bytes read
     saw |-> "", svpc |-> "", after |-> FALSE, errno |-> "", read |-> <<>>]

\* every failed read taken for a missing file
ReadErrorAlwaysAbsent(errno) == ""

\* lines 48-53: a missing file is an absent result, another failure an error
ReadError(errno) ==
    IF errno = "ENOENT" THEN "" ELSE "read release metadata"

\* what the lookup of <runtime>/release.json finds
Lookup == IF dirExists /\ links[FinalName] # 0 THEN "present" ELSE "absent"

\* lines 36-47: the checks, then os.ReadFile opens release.json
LoadCall(ctx, path) ==
    /\ ld.pc = "idle"
    /\ LET l == [ld EXCEPT !.path = path, !.saw = Lookup, !.svpc = sv["s1"].pc,
                           !.after = sv["s1"].pc = "done" /\ sv["s1"].err = ""]
       IN  IF path = "" THEN
                ld' = [l EXCEPT !.pc = "done", !.err = "runtime path is required"]
           ELSE IF ctx = "cancelled" THEN
                ld' = [l EXCEPT !.pc = "done", !.err = "context canceled"]
           ELSE \E errno \in {IF Lookup = "absent" THEN "ENOENT" ELSE "", "EACCES"} :
                IF errno # ""
                THEN ld' = [l EXCEPT !.pc = "done", !.errno = errno,
                                     !.err = ReadError(errno)]
                ELSE ld' = [l EXCEPT !.pc = "read", !.fd = links[FinalName]]
    /\ UNCHANGED <<clock, dirExists, links, inodes, initial, sv>>

\* lines 47-59: os.ReadFile reads the opened file, json.Unmarshal parses it
LoadRead ==
    /\ ld.pc = "read"
    /\ \/ LET c == inodes[ld.fd]
          IN  ld' = [ld EXCEPT !.pc = "done", !.fd = 0, !.read = <<c>>,
                               !.res = IF UnmarshalOK(c) THEN <<Unmarshal(c)>> ELSE <<>>,
                               !.err = IF UnmarshalOK(c) THEN ""
                                       ELSE "parse release metadata"]
       \/ ld' = [ld EXCEPT !.pc = "done", !.fd = 0, !.errno = "EIO",
                            !.err = ReadError("EIO")]
    /\ inodes' = Collect(inodes, links, {sv[q].fd : q \in Savers})
    /\ UNCHANGED <<clock, dirExists, links, initial, sv>>

(***************************************************************************)
(* The specifications of the release store                                 *)
(***************************************************************************)
\* the runtime directory before the calls: missing, empty, or holding a
\* release.json that an earlier save wrote or that is corrupt
InitialFiles == {<<>>, <<Garbage>>, <<MarshalIndent(OldMeta)>>}

StoreInit ==
    /\ clock = [year |-> 2025, sec |-> 1, nsec |-> 0]
    /\ dirExists \in BOOLEAN
    /\ initial \in InitialFiles
    /\ dirExists \/ initial = <<>>
    /\ links = [n \in {FinalName, "temp"} |->
                    IF n = FinalName /\ initial # <<>> THEN 1 ELSE 0]
    /\ inodes = [i \in InodeIds |-> IF i = 1 /\ initial # <<>> THEN initial[1] ELSE <<>>]
    /\ sv = [p \in Savers |-> IdleSaver]
    /\ ld = IdleLoader

SaveStep(p) ==
    \/ SaveMkdirAll(p)
    \/ SaveMarshal(p)
    \/ SaveOpenTemp(p)
    \/ SaveWriteTemp(p)
    \/ SaveRename(p)

SaveAny(p) ==
    \E ctx \in Contexts, path \in {"", RuntimeDir}, hasMeta \in BOOLEAN, m \in StoreMetas :
        SaveCall(p, ctx, path, hasMeta, m)

LoadAny == \E ctx \in Contexts, path \in {"", RuntimeDir} : LoadCall(ctx, path)

(***************************************************************************)
(* The diff report (app.go:735-1009).  A manifest is a sequence of lines   *)
(* [ind, key, val, q]: the indentation level, the key, the scalar value    *)
(* and whether the value is written in quotes.                             *)
(***************************************************************************)
Line(ind, key, val, q) == [ind |-> ind, key |-> key, val |-> val, q |-> q]

ServicesLine == Line(0, "services", "", FALSE)
BadLine == Line(0, "\t{", "", FALSE)     \* a line that is not YAML

ServiceNames == <<"db", "web">>          \* in lexical order
PropertyKeys == <<"image", "user">>      \* in lexical order

SubDocs ==
    {<<Line(2, "image", "a", FALSE), Line(2, "user", "u", FALSE)>>,
     <<Line(2, "user", "u", FALSE), Line(2, "image", "a", FALSE)>>,
     <<Line(2, "image", "a", TRUE), Line(2, "user", "u", FALSE)>>,
     <<Line(2, "image", "b", FALSE), Line(2, "user", "u", FALSE)>>}

Range(q) == {q[i] : i \in 1..Len(q)}

\* the text of a manifest whose services are DOMAIN f, each with the lines f[s]
RECURSIVE ServiceLines(_, _)
ServiceLines(f, i) ==
    IF i > Len(ServiceNames) THEN <<>>
    ELSE (IF ServiceNames[i] \in DOMAIN f
          THEN <<Line(1, ServiceNames[i], "", FALSE)>> \o f[ServiceNames[i]]
          ELSE <<>>) \o ServiceLines(f, i + 1)

ManifestOf(f) == <<ServicesLine>> \o ServiceLines(f, 1)

\* sigs.k8s.io/yaml Unmarshal into map[string]any
YamlOK(text) == \A i \in 1..Len(text) : text[i] # BadLine

IsServiceLine(text, i) ==
    /\ text[i].ind = 1
    /\ LET tops == {j \in 1..(i - 1) : text[j].ind = 0}
       IN  /\ tops # {}
           /\ text[CHOOSE j \in tops : \A k \in tops : k <= j].key = "services"

PropsOf(text, i) ==
    {j \in (i + 1)..Len(text) : \A k \in (i + 1)..j : text[k].ind = 2}

\* doc["services"], each service as the mapping of its keys to their values
ServicesOf(text) ==
    LET at == {i \in 1..Len(text) : IsServiceLine(text, i)}
        names == {text[i].key : i \in at}
        lineOf(n) == CHOOSE i \in at : text[i].key = n
        props(n) == PropsOf(text, lineOf(n))
    IN  [n \in names |->
            [k \in {text[j].key : j \in props(n)} |->
                text[CHOOSE j \in props(n) : text[j].key = k].val]]

\* yaml.Marshal of a service's value: the keys sorted, the values unquoted
YamlMarshal(m) ==
    LET keys == SelectSeq(PropertyKeys, LAMBDA k : k \in DOMAIN m)
    IN  IF keys = <<>> THEN <<"null">>
        ELSE [i \in 1..Len(keys) |-> <<keys[i], m[keys[i]]>>]

\* app.go:962-981; a nil or unparsable manifest has no services
extractServiceNames(y) ==
    IF y = <<>> \/ ~YamlOK(y[1]) THEN {} ELSE DOMAIN ServicesOf(y[1])

\* the lines of a service's sub-document as the manifest has them
SubDocumentText(text, name) ==
    LET i == CHOOSE k \in 1..Len(text) : IsServiceLine(text, k) /\ text[k].key = name
    IN  SubSeq(text, i + 1, i + Cardinality(PropsOf(text, i)))

\* the sub-document compared as written, not parsed and serialized again
extractServiceDataAsWritten(y, name) ==
    IF y = <<>> \/ ~YamlOK(y[1]) THEN <<>>
    ELSE IF name \notin DOMAIN ServicesOf(y[1]) THEN <<>>
    ELSE SubDocumentText(y[1], name)

\* app.go:983-1009
extractServiceData(y, name) ==
    IF y = <<>> \/ ~YamlOK(y[1]) THEN <<>>
    ELSE IF name \notin DOMAIN ServicesOf(y[1]) THEN <<>>
    ELSE YamlMarshal(ServicesOf(y[1])[name])

\* every enumeration of a set without repetition: the orders a range over a map takes
Orders(S) == {q \in [1..Cardinality(S) -> S] : \A e \in S : \E i \in DOMAIN q : q[i] = e}

Tag(q, suffix) == [i \in DOMAIN q |-> <<q[i], suffix>>]

\* the second loop of extractAffectedServices left out
removedServicesNone(old, new) == {}

\* app.go:941-946
removedServices(old, new) ==
    {s \in extractServiceNames(old) : s \notin extractServiceNames(new)}

\* app.go:934-939
addedServices(old, new) ==
    {s \in extractServiceNames(new) : s \notin extractServiceNames(old)}

\* app.go:948-957
modifiedServices(old, new) ==
    {s \in extractServiceNames(new) :
        /\ s \in extractServiceNames(old)
        /\ extractServiceData(old, s) # extractServiceData(new, s)}

\* app.go:922-960: the lists a call may return, one per iteration order
extractAffectedServices(old, new) ==
    {Tag(a, "") \o Tag(r, " (removed)") \o Tag(m, " (modified)") :
        a \in Orders(addedServices(old, new)),
        r \in Orders(removedServices(old, new)),
        m \in Orders(modifiedServices(old, new))}

\* strings.Split(text, "\n"): the lines between the newlines, at least one
RECURSIVE SplitLines(_, _)
SplitLines(text, line) ==
    IF text = <<>> THEN <<line>>
    ELSE IF Head(text) = "\n" THEN <<line>> \o SplitLines(Tail(text), <<>>)
    ELSE SplitLines(Tail(text), Append(line, Head(text)))

\* app.go:795-802, 899-906: line i, or the zero value past the end
LineAt(lines, i, empty) == IF i <= Len(lines) THEN lines[i] ELSE empty

\* app.go:804-811, 908-915: what one index prints
hunkAt(old, new, empty, i) ==
    LET currentLine == LineAt(old, i, empty)
        newLine == LineAt(new, i, empty)
    IN  IF currentLine = newLine THEN <<>>
        ELSE (IF currentLine # empty THEN <<<<"-", currentLine>>>> ELSE <<>>)
             \o (IF newLine # empty THEN <<<<"+", newLine>>>> ELSE <<>>)

\* app.go:789-812, 893-916: the loop over the indices up to the longer length
RECURSIVE lineDiff(_, _, _, _)
lineDiff(old, new, empty, i) ==
    IF i > Len(old) /\ i > Len(new) THEN <<>>
    ELSE hunkAt(old, new, empty, i) \o lineDiff(old, new, empty, i + 1)

\* the empty string among the lines of a manifest
EmptyLine == Line(0, "", "", FALSE)

\* files compared by length only
fileModifiedByLength(old, new) == Len(old) # Len(new)

\* app.go:842: string(oldData) != string(newData)
fileModified(old, new) == old # new

\* db comes in two forms, web in every form
SubDocsOf(s) ==
    IF s = "db" THEN {d \in SubDocs : d[1].key = "image" /\ ~d[1].q} ELSE SubDocs

ServiceMaps ==
    UNION {{f \in [S -> SubDocs] : \A s \in S : f[s] \in SubDocsOf(s)} :
            S \in SUBSET Range(ServiceNames)}

Manifests == {ManifestOf(f) : f \in ServiceMaps} \cup {<<>>}

FilePaths == {"f1", "f2"}
FileContents == {<<"x">>, <<"y">>, <<"\n", "x">>}
FileMaps == UNION {[S -> FileContents] : S \in SUBSET FilePaths}

\* the arguments DiffRelease passes: without release metadata the candidate alone
\* (app.go:381-384), else docker-compose.yaml and files/ as read from the runtime
\* directory (app.go:386-400)
DiffInputs ==
    {[pc |-> "call", cur |-> <<>>, new |-> <<new>>, curFiles |-> <<>>,
      newFiles |-> <<nf>>, affected |-> <<>>, added |-> <<>>, modified |-> <<>>,
      removed |-> <<>>, showFiles |-> sf, hunks |-> <<>>, fileHunks |-> <<>>] :
        new \in Manifests, nf \in FileMaps, sf \in BOOLEAN}
    \cup
    {[pc |-> "call", cur |-> <<cur>>, new |-> <<new>>, curFiles |-> <<cf>>,
      newFiles |-> <<nf>>, affected |-> <<>>, added |-> <<>>, modified |-> <<>>,
      removed |-> <<>>, showFiles |-> sf, hunks |-> <<>>, fileHunks |-> <<>>] :
        cur \in Manifests \cup {<<BadLine>>}, new \in Manifests,
        cf \in FileMaps, nf \in FileMaps, sf \in BOOLEAN}

IdleDiff ==
    [pc |-> "idle", cur |-> <<>>, new |-> <<>>, curFiles |-> <<>>, newFiles |-> <<>>,
     affected |-> <<>>, added |-> <<>>, modified |-> <<>>, removed |-> <<>>,
     \* --show-files; the change hunks printed for the manifest and for each
     \* modified file
     showFiles |-> FALSE, hunks |-> <<>>, fileHunks |-> <<>>]

\* app.go:737-772: no current manifest, everything is shown as created
showNewRelease ==
    /\ df.pc = "call"
    /\ df.cur = <<>>
    /\ \E aff \in extractAffectedServices(<<>>, df.new),
          add \in Orders(DOMAIN df.newFiles[1]) :
            df' = [df EXCEPT !.pc = "done", !.affected = aff, !.added = add]
    /\ UNCHANGED storeVars
    /\ UNCHANGED pipeVars

\* app.go:774-920: the services when the texts differ, then the files by path
showChanges ==
    /\ df.pc = "call"
    /\ df.cur # <<>>
    /\ LET nf == df.newFiles[1]
           hunks == IF df.cur[1] # df.new[1]
                    THEN lineDiff(df.cur[1], df.new[1], EmptyLine, 1) ELSE <<>>
       IN
       \E aff \in (IF df.cur[1] # df.new[1]
                   THEN extractAffectedServices(df.cur, df.new) ELSE {<<>>}) :
            IF df.curFiles = <<>> THEN
                \E add \in Orders(DOMAIN nf) :
                    df' = [df EXCEPT !.pc = "done", !.affected = aff, !.added = add,
                                     !.hunks = hunks]
            ELSE LET cf == df.curFiles[1] IN
                \E add \in Orders({p \in DOMAIN nf : p \notin DOMAIN cf}),
                   mod \in Orders({p \in DOMAIN nf :
                                    p \in DOMAIN cf /\ fileModified(cf[p], nf[p])}),
                   rem \in Orders({p \in DOMAIN cf : p \notin DOMAIN nf}) :
                    df' = [df EXCEPT
                            !.pc = "done", !.affected = aff, !.added = add,
                            !.modified = mod, !.removed = rem, !.hunks = hunks,
                            !.fileHunks =
                                IF df.showFiles
                                THEN [p \in Range(mod) |->
                                        lineDiff(SplitLines(cf[p], <<>>),
                                                 SplitLines(nf[p], <<>>), <<>>, 1)]
                                ELSE <<>>]
    /\ UNCHANGED storeVars
    /\ UNCHANGED pipeVars

(***************************************************************************)
(* The values build (app.go:515-674).  A configuration tree is a function  *)
(* from keys to nodes; a node is a scalar, a list (named by a string, a    *)
(* layer replaces it as a whole) or a mapping.  A key is a Go string.      *)
(***************************************************************************)
NoKeys == [k \in {} |-> 0]

Scalar(v) == [kind |-> "scalar", v |-> v, m |-> NoKeys]
List(v) == [kind |-> "list", v |-> v, m |-> NoKeys]
Map(f) == [kind |-> "map", v |-> "", m |-> f]

\* dst[key] = node
Put(dst, key, node) ==
    [k \in DOMAIN dst \cup {key} |-> IF k = key THEN node ELSE dst[k]]

KeyA == <<"a">>
KeyB == <<"b">>
KeyC == <<"c">>
KeyD == <<"d">>

\* values.Merge, the deep merge of section 3: a mapping of the overlay is merged
\* key by key into a mapping of the base, any other node of the overlay replaces
\* what the base holds at its key
RECURSIVE Merge(_, _)
Merge(base, overlay) ==
    [k \in DOMAIN base \cup DOMAIN overlay |->
        IF k \notin DOMAIN overlay THEN base[k]
        ELSE IF k \in DOMAIN base /\ base[k].kind = "map" /\ overlay[k].kind = "map"
        THEN Map(Merge(base[k].m, overlay[k].m))
        ELSE overlay[k]]

\* values.Validate: without a schema every tree passes; the schema of the model
\* wants the value at a, if there is one, to be a scalar
Validate(schema, tree) ==
    schema = "none" \/ KeyA \notin DOMAIN tree \/ tree[KeyA].kind = "scalar"

\* the dotted key taken for one segment
SplitNone(key, seg) == <<key>>

\* strings.Split(key, "."): the segments between the dots, at least one
RECURSIVE Split(_, _)
Split(key, seg) ==
    IF key = <<>> THEN <<seg>>
    ELSE IF Head(key) = "." THEN <<seg>> \o Split(Tail(key), <<>>)
    ELSE Split(Tail(key), Append(seg, Head(key)))

\* app.go:627, the path of a key
PathOf(key) == Split(key, <<>>)

\* app.go:632-648
RECURSIVE assignSetValue(_, _, _)
assignSetValue(dst, path, value) ==
    IF Len(path) = 0 THEN dst
    ELSE IF Len(path) = 1 THEN Put(dst, path[1], Scalar(value))
    ELSE LET key == path[1]
             next == IF key \in DOMAIN dst /\ dst[key].kind = "map"
                     THEN dst[key].m ELSE NoKeys
         IN  Put(dst, key, Map(assignSetValue(next, Tail(path), value)))

\* app.go:624-630 with the pairs taken in the order q
RECURSIVE assignInOrder(_, _, _)
assignInOrder(in, q, out) ==
    IF q = <<>> THEN out
    ELSE assignInOrder(in, Tail(q), assignSetValue(out, PathOf(Head(q)), in[Head(q)]))

\* app.go:624-630: the range over the map takes the pairs in any order
buildSetOverrides(in) == {assignInOrder(in, q, NoKeys) : q \in Orders(DOMAIN in)}

\* app.go:661-674
RECURSIVE deepCopyValue(_)
deepCopyValue(val) ==
    IF val.kind = "map"
    THEN Map([k \in DOMAIN val.m |-> deepCopyValue(val.m[k])])
    ELSE val

\* the base values themselves, not a copy of them
deepCopyMapAlias(src) == [tree |-> src, shared |-> TRUE]

\* app.go:650-659: the copy shares no map with its source
deepCopyMap(src) ==
    [tree |-> [k \in DOMAIN src |-> deepCopyValue(src[k])], shared |-> FALSE]

\* the content of a values file: "unreadable" (os.ReadFile fails), "empty" (no
\* bytes), "null" (a YAML null), "list" (YAML, not a mapping) or "map"
FileOf(kind, tree) == [kind |-> kind, tree |-> tree]

\* app.go:608-622
loadValuesFile(content) ==
    IF content.kind \in {"unreadable", "list"} THEN [ok |-> FALSE, tree |-> NoKeys]
    ELSE IF content.kind \in {"empty", "null"} THEN [ok |-> TRUE, tree |-> NoKeys]
    ELSE [ok |-> TRUE, tree |-> content.tree]

MaxFiles == 2       \* values files of one build

BaseNodes ==
    {Scalar("1"), List("L1"), Map(NoKeys), Map(KeyB :> Scalar("1")),
     Map((KeyB :> Scalar("1")) @@ (KeyC :> List("L1")))}

\* the chart's values.yaml
BaseTrees ==
    {NoKeys, KeyD :> Scalar("1")}
    \cup {KeyA :> n : n \in BaseNodes}
    \cup {(KeyA :> n) @@ (KeyD :> Scalar("1")) : n \in {Scalar("1"), Map(KeyB :> Scalar("1"))}}

FileTrees ==
    {KeyA :> Scalar("2"), KeyA :> Map(KeyB :> Scalar("2")),
     KeyA :> Map(KeyC :> Scalar("2")), KeyD :> List("L2")}

ValuesFileContents ==
    {FileOf(k, NoKeys) : k \in {"unreadable", "empty", "list"}}
        \cup {FileOf("map", t) : t \in FileTrees}

ValuesFilePaths == <<"f1", "f2", "f3">>

\* the --set pairs, parsed into a map (their order on the command line is lost)
SetKeys == {KeyA, <<"a", ".", "b">>, <<"a", ".", "c">>}

SetMaps == UNION {[S -> {"9"}] : S \in SUBSET SetKeys}

IdleValues ==
    [pc |-> "idle", chart |-> <<>>, schema |-> "none", writeThrough |-> FALSE,
     files |-> <<>>, disk |-> <<>>, set |-> NoKeys,
     result |-> NoKeys, shared |-> FALSE, sources |-> <<>>, i |-> 0,
     ret |-> <<>>, err |-> "",
     \* history: the layers merged so far, the tree the overrides were merged into
     layers |-> <<>>, before |-> <<>>, base0 |-> <<>>]

\* the arguments of a build: the chart (values nil or a tree, a schema or none),
\* the values files and their contents, the inline overrides.  writeThrough says
\* whether values.Merge writes the merged keys into its first argument, as a Go
\* map allows, on top of returning the merged tree.
ValuesInputs ==
    {[IdleValues EXCEPT !.pc = "call", !.chart = ch, !.base0 = ch, !.schema = sc,
                        !.writeThrough = wt,
                        !.files = SubSeq(ValuesFilePaths, 1, Len(d)),
                        !.disk = d, !.set = s] :
        ch \in {<<>>} \cup {<<t>> : t \in BaseTrees}, sc \in {"none", "scalar a"},
        wt \in BOOLEAN,
        d \in UNION {[1..n -> ValuesFileContents] : n \in 0..MaxFiles},
        s \in SetMaps}

\* result, err = values.Merge(result, overlay) in buildValues
mergeInto(b, overlay) ==
    LET merged == Merge(b.result, overlay)
    IN  [b EXCEPT !.result = merged,
                  !.chart = IF b.writeThrough /\ b.shared THEN <<merged>> ELSE @,
                  !.layers = Append(@, overlay)]

\* app.go:516-524
buildValuesStart ==
    /\ vb.pc = "call"
    /\ LET copied == IF vb.chart # <<>> THEN deepCopyMap(vb.chart[1])
                     ELSE [tree |-> NoKeys, shared |-> FALSE]
       IN  vb' = [vb EXCEPT !.pc = "files", !.result = copied.tree,
                            !.shared = copied.shared, !.i = 1,
                            !.sources = <<"chart:values.yaml">>,
                            !.layers = <<copied.tree>>]
    /\ UNCHANGED <<storeVars, df, cl, mf, ap, rt, rn>>

\* the provenance of a values file left out
appendSourceNone(sources, path) == sources

\* app.go:535
appendSource(sources, path) == Append(sources, path)

\* app.go:526-536, one iteration of the loop
buildValuesFile ==
    /\ vb.pc = "files"
    /\ vb.i <= Len(vb.files)
    /\ LET path == vb.files[vb.i]
           loaded == loadValuesFile(vb.disk[vb.i])
       IN  IF ~loaded.ok
           THEN vb' = [vb EXCEPT !.pc = "done", !.err = "load values file"]
           ELSE vb' = [mergeInto(vb, loaded.tree) EXCEPT
                          !.i = vb.i + 1, !.sources = appendSource(vb.sources, path)]
    /\ UNCHANGED <<storeVars, df, cl, mf, ap, rt, rn>>

\* app.go:538-548
buildValuesSet ==
    /\ vb.pc = "files"
    /\ vb.i > Len(vb.files)
    /\ IF DOMAIN vb.set # {}
       THEN \E setOverrides \in buildSetOverrides(vb.set) :
                IF DOMAIN setOverrides # {}
                THEN vb' = [mergeInto(vb, setOverrides) EXCEPT
                               !.pc = "validate", !.before = <<vb.result>>,
                               !.sources = Append(vb.sources, "cli:set")]
                ELSE vb' = [vb EXCEPT !.pc = "validate"]
       ELSE vb' = [vb EXCEPT !.pc = "validate"]
    /\ UNCHANGED <<storeVars, df, cl, mf, ap, rt, rn>>

\* app.go:550-554
buildValuesValidate ==
    /\ vb.pc = "validate"
    /\ IF Validate(vb.schema, vb.result)
       THEN vb' = [vb EXCEPT !.pc = "done", !.ret = <<[values |-> vb.result,
                                                       sources |-> vb.sources]>>]
       ELSE vb' = [vb EXCEPT !.pc = "done", !.err = "validate values"]
    /\ UNCHANGED <<storeVars, df, cl, mf, ap, rt, rn>>

(***************************************************************************)
(* The chart loader (composite_loader.go, fetch.go).  A chart source is a  *)
(* Go string, here a sequence of pieces: a scheme, a path, an extension.   *)
(***************************************************************************)
\* the bytes of the strings and pieces that are compared for order
Bytes(name) ==
    CASE name = "00-app.yaml" -> <<48, 48, 45, 97, 112, 112, 46, 121, 97, 109, 108>>
      [] name = "10-db.yaml" -> <<49, 48, 45, 100, 98, 46, 121, 97, 109, 108>>
      [] name = "9-web.yaml" -> <<57, 45, 119, 101, 98, 46, 121, 97, 109, 108>>
      [] name = "Chart.yaml" -> <<67, 104, 97, 114, 116, 46, 121, 97, 109, 108>>
      [] name = "CHART.YAML" -> <<67, 72, 65, 82, 84, 46, 89, 65, 77, 76>>
      [] name = "B" -> <<66>>
      [] name = "a" -> <<97>>
      [] name = "etc" -> <<101, 116, 99>>
      [] name = "evil" -> <<101, 118, 105, 108>>
      [] name = "." -> <<46>>
      [] name = "._" -> <<46, 95>>
      [] name = "git" -> <<103, 105, 116>>
      [] name = ".DS_Store" -> <<46, 68, 83, 95, 83, 116, 111, 114, 101>>
      [] name = "__MACOSX" -> <<95, 95, 77, 65, 67, 79, 83, 88>>

\* Go's < on strings, by their bytes: the first differing byte decides, a
\* proper prefix is less
BytesLess(x, y) ==
    LET differ == {i \in 1..Len(x) : i > Len(y) \/ x[i] # y[i]}
        first == CHOOSE i \in differ : \A j \in differ : i <= j
    IN  IF differ = {} THEN Len(x) < Len(y)
        ELSE first <= Len(y) /\ x[first] < y[first]

StringLess(a, b) == BytesLess(Bytes(a), Bytes(b))

\* strings.ToLower on the pieces the sources and the file names are made of
LowerPiece(c) ==
    CASE c = "HTTP://" -> "http://"
      [] c = "Https://" -> "https://"
      [] c = ".TGZ" -> ".tgz"
      [] c = ".CPack" -> ".cpack"
      [] c = "Chart.yaml" -> "chart.yaml"
      [] c = "CHART.YAML" -> "chart.yaml"
      [] OTHER -> c

ToLower(s) == [i \in DOMAIN s |-> LowerPiece(s[i])]

HasPrefix(s, p) == Len(s) >= Len(p) /\ SubSeq(s, 1, Len(p)) = p

HasSuffix(s, p) == Len(s) >= Len(p) /\ SubSeq(s, Len(s) - Len(p) + 1, Len(s)) = p

\* fetch.go:55-58
isURL(source) ==
    LET lower == ToLower(source)
    IN  HasPrefix(lower, <<"https://">>) \/ HasPrefix(lower, <<"http://">>)

\* composite_loader.go:77-84
looksLikeArchive(path) ==
    LET lower == ToLower(path)
    IN  \/ HasSuffix(lower, <<".tar">>)
        \/ HasSuffix(lower, <<".tar", ".gz">>)
        \/ HasSuffix(lower, <<".tgz">>)
        \/ HasSuffix(lower, <<".cpack">>)
        \/ HasSuffix(lower, <<".cpack", ".tgz">>)

\* composite_loader.go:94: the archive is read through gzip
gunzips(path) ==
    LET lower == ToLower(path)
    IN  HasSuffix(lower, <<".gz">>) \/ HasSuffix(lower, <<".tgz">>)

(***************************************************************************)
(* Archive extraction (composite_loader.go:86-182).  The name of an entry  *)
(* and a path of the file system are sequences of segments, the parts      *)
(* between the slashes; a segment is a sequence of pieces.  A name that    *)
(* begins or ends with a slash begins or ends with the empty segment.      *)
(***************************************************************************)
MetadataFile == <<"Chart.yaml">>

\* strings.EqualFold on file names
EqualFold(a, b) == ToLower(a) = ToLower(b)

\* filepath.Clean of a rooted path: "" and "." dropped, ".." takes the segment
\* before it, and nothing at the root
RECURSIVE Clean(_, _)
Clean(segs, out) ==
    IF segs = <<>> THEN out
    ELSE IF Head(segs) = <<>> \/ Head(segs) = <<".">> THEN Clean(Tail(segs), out)
    ELSE IF Head(segs) = <<"..">>
    THEN Clean(Tail(segs), IF out = <<>> THEN out ELSE SubSeq(out, 1, Len(out) - 1))
    ELSE Clean(Tail(segs), Append(out, Head(segs)))

\* filepath.Join(dest, name), dest a rooted path
Join(dest, name) == Clean(dest \o name, <<>>)

\* filepath.Dir of a clean rooted path
Dir(path) == IF path = <<>> THEN path ELSE SubSeq(path, 1, Len(path) - 1)

RECURSIVE TrimSlashes(_)
TrimSlashes(name) ==
    IF name # <<>> /\ name[Len(name)] = <<>>
    THEN TrimSlashes(SubSeq(name, 1, Len(name) - 1)) ELSE name

\* filepath.Base
Base(name) ==
    LET t == TrimSlashes(name)
    IN  IF t # <<>> THEN t[Len(t)]
        ELSE IF name = <<>> THEN <<".">> ELSE <<"/">>

\* composite_loader.go:142-151
shouldSkipArchiveEntry(name) ==
    LET base == Base(name)
    IN  \/ HasPrefix(base, <<"._">>) \/ base = <<".DS_Store">>
        \/ (Len(name) >= 2 /\ name[1] = <<"__MACOSX">>)

Prefixes(path) == {SubSeq(path, 1, n) : n \in 0..Len(path)}

\* os.MkdirAll: the directory and its missing parents, unless a file is in the way
MkdirAll(disk, path) ==
    IF \E q \in Prefixes(path) : q \in DOMAIN disk /\ disk[q] = "file"
    THEN [ok |-> FALSE, disk |-> disk]
    ELSE [ok |-> TRUE,
          disk |-> [q \in DOMAIN disk \cup Prefixes(path) |->
                        IF q \in DOMAIN disk THEN disk[q] ELSE "dir"]]

\* composite_loader.go:113-136: one entry of the archive
extractEntry(disk, dest, e) ==
    IF shouldSkipArchiveEntry(e.name) THEN [err |-> "", disk |-> disk]
    ELSE LET target == Join(dest, e.name) IN
        IF e.type = "dir" THEN
            LET r == MkdirAll(disk, target)
            IN  [err |-> IF r.ok THEN "" ELSE "create dir", disk |-> r.disk]
        ELSE IF e.type = "file" THEN
            LET r == MkdirAll(disk, Dir(target))
            IN  IF ~r.ok THEN [err |-> "create file dir", disk |-> disk]
                ELSE IF target \in DOMAIN r.disk /\ r.disk[target] = "dir"
                THEN [err |-> "create file", disk |-> r.disk]
                ELSE [err |-> "",
                      disk |-> [q \in DOMAIN r.disk \cup {target} |->
                                    IF q = target THEN "file" ELSE r.disk[q]]]
        ELSE [err |-> "", disk |-> disk]

\* composite_loader.go:103-137: the entries in the order of the archive, up to
\* the first that fails
RECURSIVE extractArchive(_, _, _)
extractArchive(disk, dest, entries) ==
    IF entries = <<>> THEN [err |-> "", disk |-> disk]
    ELSE LET r == extractEntry(disk, dest, Head(entries))
         IN  IF r.err # "" THEN r ELSE extractArchive(r.disk, dest, Tail(entries))

SegBytes(seg) == IF seg = <<>> THEN <<>> ELSE Bytes(seg[1]) \o
                    (IF Len(seg) > 1 THEN Bytes(seg[2]) ELSE <<>>)

\* os.ReadDir: the entries of a directory, sorted by file name
ReadDir(disk, dir) ==
    LET kids == {q \in DOMAIN disk : Len(q) = Len(dir) + 1 /\ Dir(q) = dir}
    IN  CHOOSE r \in [1..Cardinality(kids) -> kids] :
            \A i, j \in DOMAIN r :
                i < j => BytesLess(SegBytes(Base(r[i])), SegBytes(Base(r[j])))

\* composite_loader.go:155-174: filepath.WalkDir from dir on with the callback of
\* findChartRoot; <<d>> for the directory d of the first metadata file met
RECURSIVE walkDir(_, _, _)
walkDir(disk, base, dir) ==
    LET rel == SubSeq(dir, Len(base) + 1, Len(dir))
        kids == ReadDir(disk, dir)
        visit[i \in 1..(Len(kids) + 1)] ==
            IF i > Len(kids) THEN <<>>
            ELSE LET found == IF disk[kids[i]] = "dir" THEN walkDir(disk, base, kids[i])
                              ELSE IF EqualFold(Base(kids[i]), MetadataFile)
                              THEN <<dir>> ELSE <<>>
                 IN  IF found # <<>> THEN found ELSE visit[i + 1]
    IN  IF shouldSkipArchiveEntry(rel) THEN <<>> ELSE visit[1]

\* composite_loader.go:153-182
findChartRoot(disk, base) ==
    LET found == walkDir(disk, base, base)
    IN  IF found = <<>> THEN [err |-> "chart archive missing Chart.yaml", root |-> <<>>]
        ELSE [err |-> "", root |-> found]

\* os.MkdirTemp("", "composepack-chart-*") and the file system around it
TempDest == <<<<"tmp">>, <<"composepack-chart-2">>>>

BaseDisk == [q \in Prefixes(TempDest) |-> "dir"]

Under(path, dir) == Len(path) >= Len(dir) /\ SubSeq(path, 1, Len(dir)) = dir

\* what the bytes of the archive file are
Encodings == {"gzip", "tar", "other"}

File(name) == [name |-> name, type |-> "file"]

Directory(name) == [name |-> name, type |-> "dir"]

\* os.CreateTemp("", "composepack-chart-*.cpack.tgz")
TempArchive == <<"tmp/composepack-chart-1", ".cpack", ".tgz">>

ChartSources ==
    {<<>>,
     <<"charts/app">>, <<"app", ".tgz">>, <<"app", ".TGZ">>, <<"app", ".tar", ".gz">>,
     <<"app", ".txt">>,
     <<"http://", "host/app", ".tgz">>, <<"HTTP://", "host/app", ".zip">>,
     <<"Https://", "host/app">>}

StatusOK == 200

\* the status of the response, when there is one
Statuses == {StatusOK, 204, 404}

\* any status of the 2xx class
statusAcceptedAny2xx(status) == status >= 200 /\ status < 300

\* fetch.go:26
statusAccepted(status) == status = StatusOK

\* a chart as loaded: its metadata and the names of its compose templates and
\* of its files (file templates and static files)
ComposeTemplates == <<"9-web.yaml", "00-app.yaml", "10-db.yaml">>

Charts ==
    {[Metadata |-> ChartTwo, compose |-> c, files |-> f] :
        c \in {{}, {"00-app.yaml"}, Range(ComposeTemplates)}, f \in {{}, {"f1"}}}

NoChart == [Metadata |-> ZeroChartMetadata, compose |-> {}, files |-> {}]

IdleChartLoad ==
    [pc |-> "idle", ctx |-> "live", source |-> <<>>, resolved |-> <<>>,
     tmpFile |-> FALSE, tmpDir |-> FALSE, deferFile |-> FALSE, deferDir |-> FALSE,
     chart |-> NoChart, err |-> "",
     \* history: the response, whether the temporary file and directory were
     \* made, whether the temporary file failed, what loadArchive was given
     transport |-> "", status |-> 0, madeFile |-> FALSE, madeDir |-> FALSE,
     fileFailed |-> FALSE, stat |-> "", archive |-> <<>>,
     \* history: the bytes and the entries of the archive, the paths that the
     \* extraction made and that still exist, the chart root found
     encoding |-> "", entries |-> <<>>, created |-> {}, root |-> <<>>]

\* a return that leaves the downloaded file behind
loadReturnKeepFile(c, chart, err) ==
    [c EXCEPT !.pc = "done", !.chart = chart, !.err = err,
              !.tmpDir = IF c.deferDir THEN FALSE ELSE @,
              !.created = IF c.deferDir THEN {q \in @ : ~Under(q, TempDest)} ELSE @]

\* a return of Load: the deferred os.RemoveAll(tmpDir) of loadArchive
\* (composite_loader.go:66) and the deferred cleanup of Load (line 38) run
loadReturn(c, chart, err) ==
    [c EXCEPT !.pc = "done", !.chart = chart, !.err = err,
              !.tmpDir = IF c.deferDir THEN FALSE ELSE @,
              !.created = IF c.deferDir THEN {q \in @ : ~Under(q, TempDest)} ELSE @,
              !.tmpFile = IF c.deferFile THEN FALSE ELSE @]

\* composite_loader.go:26-32
loadChartCall(ctx, source) ==
    /\ cl.pc = "idle"
    /\ LET c == [cl EXCEPT !.ctx = ctx, !.source = source, !.resolved = source]
       IN  IF source = <<>>
           THEN cl' = loadReturn(c, NoChart, "chart source must be provided")
           ELSE IF isURL(source)
           THEN cl' = [c EXCEPT !.pc = "request"]
           ELSE cl' = [c EXCEPT !.pc = "stat"]

\* fetch.go:17-30: the request is sent; a cancelled context fails it
downloadRequest ==
    /\ cl.pc = "request"
    /\ \E transport \in {"ok", "failed"}, status \in Statuses :
        /\ cl.ctx = "cancelled" => transport = "failed"
        /\ IF transport = "failed"
           THEN cl' = loadReturn([cl EXCEPT !.transport = transport], NoChart,
                                 "download chart")
           ELSE IF ~statusAccepted(status)
           THEN cl' = loadReturn([cl EXCEPT !.transport = transport,
                                            !.status = status], NoChart,
                                 "download chart: unexpected status")
           ELSE cl' = [cl EXCEPT !.pc = "create", !.transport = transport,
                                 !.status = status]

\* fetch.go:32-35
downloadCreateTemp ==
    /\ cl.pc = "create"
    /\ \/ cl' = [cl EXCEPT !.pc = "copy", !.tmpFile = TRUE, !.madeFile = TRUE]
       \/ cl' = loadReturn([cl EXCEPT !.fileFailed = TRUE], NoChart, "create temp file")

\* fetch.go:37-52 and composite_loader.go:35-39: the body is copied and the file
\* closed, with os.Remove when either fails; then cleanup is deferred
downloadCopy ==
    /\ cl.pc = "copy"
    /\ \/ cl' = [cl EXCEPT !.pc = "stat", !.resolved = TempArchive, !.deferFile = TRUE]
       \/ cl' = loadReturn([cl EXCEPT !.tmpFile = FALSE, !.fileFailed = TRUE], NoChart,
                           "save downloaded chart")

\* composite_loader.go:42-58: os.Stat of the source decides how it is loaded;
\* the file just downloaded is a regular file
loadStat ==
    /\ cl.pc = "stat"
    /\ \E st \in (IF cl.deferFile THEN {"file"} ELSE {"dir", "file", "missing", "error"}) :
        IF st = "dir" THEN cl' = [cl EXCEPT !.pc = "fsload", !.stat = st]
        ELSE IF st = "error" THEN cl' = loadReturn(cl, NoChart, "stat")
        ELSE IF looksLikeArchive(cl.resolved)
        THEN cl' = [cl EXCEPT !.pc = "mktemp", !.stat = st, !.archive = cl.resolved]
        ELSE cl' = loadReturn(cl, NoChart,
                              IF st = "file" THEN "chart source is not a directory"
                              ELSE "chart source not found")

\* composite_loader.go:62-66
archiveMkdirTemp ==
    /\ cl.pc = "mktemp"
    /\ \/ cl' = [cl EXCEPT !.pc = "extract", !.tmpDir = TRUE, !.madeDir = TRUE,
                           !.deferDir = TRUE]
       \/ cl' = loadReturn(cl, NoChart, "create temp dir")

\* composite_loader.go:67-73 and 86-101: extractArchive, which cannot open a
\* missing file and reads the file through gzip by its extension, then
\* findChartRoot; a read of the file may fail at any point
archiveExtract(archives) ==
    /\ cl.pc = "extract"
    /\ \/ /\ cl.stat = "file"
          /\ \E enc \in Encodings, entries \in archives :
                LET c == [cl EXCEPT !.encoding = enc, !.entries = entries]
                    x == extractArchive(BaseDisk, TempDest, entries)
                    made == DOMAIN x.disk \ DOMAIN BaseDisk
                    f == findChartRoot(x.disk, TempDest)
                IN  IF gunzips(cl.archive) /\ enc # "gzip"
                    THEN cl' = loadReturn(c, NoChart, "create gzip reader")
                    ELSE IF ~gunzips(cl.archive) /\ enc # "tar"
                    THEN cl' = loadReturn(c, NoChart, "read archive")
                    ELSE IF x.err # ""
                    THEN cl' = loadReturn([c EXCEPT !.created = made], NoChart, x.err)
                    ELSE IF f.err # ""
                    THEN cl' = loadReturn([c EXCEPT !.created = made], NoChart, f.err)
                    ELSE cl' = [c EXCEPT !.pc = "fsload", !.created = made,
                                         !.root = f.root]
       \/ \E e \in {"open archive", "read archive"} :
            cl' = loadReturn(cl, NoChart, e)

\* FileSystemChartLoader.Load: the directory is read into a chart, or it is not a
\* chart; a cancelled context fails the load (section 5)
fsLoad ==
    /\ cl.pc = "fsload"
    /\ \/ /\ cl.ctx # "cancelled"
          /\ \E ch \in Charts : cl' = loadReturn(cl, ch, "")
       \/ cl' = loadReturn(cl, NoChart,
                           IF cl.ctx = "cancelled" THEN "context canceled"
                           ELSE "invalid chart")

\* an archive as the package command makes it
PackedArchive == <<Directory(<<<<"a">>, <<>>>>), File(<<<<"a">>, <<"Chart.yaml">>>>)>>

loadChartStep(archives) ==
    \/ downloadRequest
    \/ downloadCreateTemp
    \/ downloadCopy
    \/ loadStat
    \/ archiveMkdirTemp
    \/ archiveExtract(archives)
    \/ fsLoad

(***************************************************************************)
(* The compose Runner (dockercompose, part_003).  A subprocess is started  *)
(* by process.Runner.Run, whose outcome is that of the operating system.   *)
(***************************************************************************)
defaultComposeCommand == <<"docker", "compose">>

legacyComposeCommand == <<"docker-compose">>

\* a subprocess succeeds, cannot be started for want of the executable, or
\* fails otherwise
ExecOutcomes == {"ok", "not found", "failed"}

IdleRunner ==
    [pc |-> "idle", ctx |-> "live", dir |-> "", args |-> <<>>, project |-> <<>>,
     err |-> "",
     \* history: the subprocesses run, each with its outcome
     calls |-> <<>>]

\* part_003:123-128
composeEnv(project) ==
    IF project = <<>> THEN <<>> ELSE <<<<"COMPOSE_PROJECT_NAME=", project>>>>

\* part_003:102-107, 115-120: the process.Command of one invocation
Command(command, dir, args, project) ==
    [Name |-> Head(command), Args |-> Tail(command) \o args, Dir |-> dir,
     Env |-> composeEnv(project)]

\* part_003:101: run is entered
runCall(ctx, dir, args, project) ==
    rn' = [IdleRunner EXCEPT !.pc = "primary", !.ctx = ctx, !.dir = dir,
                             !.args = args, !.project = project]

\* no fragment needed
mergeNeedsFragmentNever(paths) == FALSE

\* Runner.MergeFragments, part_003:51-53
mergeNeedsFragment(paths) == Len(paths) = 0

\* part_003:55-58: -f and the path, for each path in turn, then config
RECURSIVE configArgs(_)
configArgs(paths) ==
    IF paths = <<>> THEN <<"config">>
    ELSE <<"-f", Head(paths)>> \o configArgs(Tail(paths))

\* Runner.MergeFragments, part_003:50-60
runnerMergeFragments(ctx, dir, paths, project) ==
    /\ rn.pc = "idle"
    /\ IF mergeNeedsFragment(paths)
       THEN rn' = [IdleRunner EXCEPT
                    !.pc = "done", !.err = "at least one compose fragment is required"]
       ELSE runCall(ctx, dir, configArgs(paths), project)

\* Runner.Run, part_003:70-78
runnerRun(ctx, dir, args) ==
    /\ rn.pc = "idle"
    /\ IF dir = ""
       THEN rn' = [IdleRunner EXCEPT !.pc = "done",
                                     !.err = "working directory is required"]
       ELSE IF args = <<>>
       THEN rn' = [IdleRunner EXCEPT
                    !.pc = "done", !.err = "docker compose arguments are required"]
       ELSE runCall(ctx, dir, args, <<>>)

\* the legacy command tried after any failure of the primary one
fallsBackOnAnyFailure(outcome) == TRUE

\* part_003:111: process.IsNotFound(err) and a fallback command is configured
fallsBack(outcome) == outcome = "not found" /\ Len(legacyComposeCommand) # 0

\* part_003:102-113: the primary command is run; a subprocess of a cancelled
\* context does not succeed
runPrimary ==
    /\ rn.pc = "primary"
    /\ \E o \in ExecOutcomes :
        /\ rn.ctx = "cancelled" => o # "ok"
        /\ LET r == [rn EXCEPT !.calls = Append(@,
                        [cmd |-> Command(defaultComposeCommand, rn.dir, rn.args,
                                         rn.project),
                         outcome |-> o])]
           IN  IF o = "ok" THEN rn' = [r EXCEPT !.pc = "done"]
               ELSE IF fallsBack(o) THEN rn' = [r EXCEPT !.pc = "fallback"]
               ELSE rn' = [r EXCEPT !.pc = "done", !.err = o]

\* part_003:115-120: the legacy command is run and its result returned
runFallback ==
    /\ rn.pc = "fallback"
    /\ \E o \in ExecOutcomes :
        /\ rn.ctx = "cancelled" => o # "ok"
        /\ rn' = [rn EXCEPT !.pc = "done", !.err = IF o = "ok" THEN "" ELSE o,
                            !.calls = Append(@,
                                [cmd |-> Command(legacyComposeCommand, rn.dir, rn.args,
                                                 rn.project),
                                 outcome |-> o])]

runStep == runPrimary \/ runFallback

(***************************************************************************)
(* mergeFragments (app.go:557-606)                                         *)
(***************************************************************************)
\* the names left as the range over the map gave them
SortStringsNone(q) == q

\* sort.Strings: the names in ascending order, each as often as it was given
SortStrings(q) ==
    CHOOSE r \in [DOMAIN q -> Range(q)] :
        /\ \A n \in Range(q) :
              Cardinality({i \in DOMAIN q : r[i] = n})
                  = Cardinality({i \in DOMAIN q : q[i] = n})
        /\ \A i, j \in DOMAIN q : i < j => ~StringLess(r[j], r[i])

IdleMerge ==
    [pc |-> "idle", ctx |-> "live", fragments |-> {}, files |-> {},
     project |-> <<>>,
     tempDir |-> FALSE, scratch |-> {}, names |-> <<>>, fragmentPaths |-> <<>>,
     out |-> <<>>, err |-> "",
     \* history: whether the scratch directory was made, the arguments of the
     \* compose runtime's config operation
     made |-> FALSE, ran |-> <<>>]

\* a return without the deferred removal
mergeReturnKeep(m, out, err) == [m EXCEPT !.pc = "done", !.out = out, !.err = err]

\* a return of mergeFragments: the deferred os.RemoveAll(tempDir) of line 562
mergeReturn(m, out, err) ==
    [m EXCEPT !.pc = "done", !.out = out, !.err = err,
              !.tempDir = FALSE, !.scratch = {}]

\* app.go:557-568
mergeCall(ctx, fragments, files, releaseName) ==
    /\ mf.pc = "idle"
    /\ LET m == [mf EXCEPT !.ctx = ctx, !.fragments = fragments, !.files = files,
                           !.project = releaseName]
       IN  \/ \E order \in Orders(fragments) :
                mf' = [m EXCEPT !.pc = "fragments", !.tempDir = TRUE, !.made = TRUE,
                                !.names = SortStrings(order)]
           \/ mf' = [m EXCEPT !.pc = "done", !.err = "create temp directory"]

\* app.go:570-580, one iteration of the loop
mergeWriteFragment ==
    /\ mf.pc = "fragments"
    /\ Len(mf.fragmentPaths) < Len(mf.names)
    /\ LET name == mf.names[Len(mf.fragmentPaths) + 1]
       IN  \/ mf' = [mf EXCEPT !.scratch = @ \cup {name},
                               !.fragmentPaths = Append(@, name)]
           \/ mf' = mergeReturn(mf, <<>>, "write fragment")

\* app.go:582-593: the file assets, under files/
mergeWriteFiles ==
    /\ mf.pc = "fragments"
    /\ Len(mf.fragmentPaths) = Len(mf.names)
    /\ \/ mf' = [mf EXCEPT !.pc = "config", !.scratch = @ \cup mf.files]
       \/ /\ mf.files # {}
          /\ \E written \in SUBSET mf.files :
                /\ written # mf.files
                /\ mf' = mergeReturn([mf EXCEPT !.scratch = @ \cup written], <<>>,
                                     "write file asset")

MergeTempDir == "tmp/composepack-fragments-3"

\* app.go:595-599: Runner.MergeFragments is called
mergeConfig ==
    /\ mf.pc = "config"
    /\ runnerMergeFragments(mf.ctx, MergeTempDir, mf.fragmentPaths, mf.project)
    /\ mf' = [mf EXCEPT !.pc = "running"]

\* the fragment paths among the arguments of a config invocation
PathsOf(args) ==
    LET at == SelectSeq([i \in DOMAIN args |-> i],
                        LAMBDA i : i > 1 /\ args[i - 1] = "-f")
    IN  [k \in DOMAIN at |-> args[at[k]]]

\* app.go:600-605 and part_003:60-66: the merged manifest of the fragments in the
\* order they were given, or the error of the runner
mergeConfigured ==
    /\ mf.pc = "running"
    /\ rn.pc = "done"
    /\ LET m == [mf EXCEPT !.ran = IF rn.calls = <<>> THEN <<>>
                                   ELSE <<PathsOf(rn.calls[1].cmd.Args)>>]
       IN  IF rn.calls = <<>> THEN mf' = mergeReturn(m, <<>>, rn.err)
           ELSE IF rn.err # "" THEN mf' = mergeReturn(m, <<>>, "docker compose config")
           ELSE mf' = mergeReturn(m, m.ran, "")
    /\ rn' = IdleRunner

mergeStep ==
    \/ mergeWriteFragment /\ rn' = rn
    \/ mergeWriteFiles /\ rn' = rn
    \/ mergeConfig
    \/ mergeConfigured

(***************************************************************************)
(* The Application workflows (app.go:139-236, 317-478).  A workflow calls  *)
(* the release store, the chart loader, the values build and the fragment  *)
(* merge modelled above; each call runs in the steps of its own model.     *)
(***************************************************************************)
Workflows == {"install", "apply", "template", "up", "diff"}

\* docker-compose.yaml and files/ as the runtime writer leaves them; by: the
\* render that wrote them
Written(by, fragments, files) ==
    [compose |-> <<[by |-> by, fragments |-> fragments]>>, files |-> <<files>>]

NoRuntime == [compose |-> <<>>, files |-> <<>>]

OldRuntime == Written("earlier", <<"00-app.yaml">>, {"f1"})

\* a record of an earlier save whose chart source is not known
OldMetaNoSource ==
    Digest([OldMeta EXCEPT !.ChartSource = <<>>])

IdleApp ==
    [pc |-> "idle", op |-> "", ctx |-> "live", name |-> <<>>, source |-> <<>>,
     autoStart |-> FALSE, valueFiles |-> <<>>, chartSource |-> <<>>,
     fragments |-> <<>>, files |-> <<>>, did |-> {}, err |-> "",
     \* history: the runtime directory at the call
     rt0 |-> NoRuntime, dir0 |-> FALSE]

appReturn(a, err) == [a EXCEPT !.pc = "done", !.err = err]

\* app.go:404-409, the first checks of renderRelease
renderStart(a) ==
    IF a.name = <<>> THEN appReturn(a, "release name is required")
    ELSE IF a.source = <<>> THEN appReturn(a, "chart source must be provided")
    ELSE [a EXCEPT !.pc = "chart", !.chartSource = a.source]

\* app.go:139-145, 177-183, 218-219, 224-225, 317-325: the workflow is called;
\* resolveRuntimeLocation wants a release name
appCall(op, ctx, name, source, autoStart, valueFiles) ==
    /\ ap.pc = "idle"
    /\ LET a == [ap EXCEPT !.op = op, !.ctx = ctx, !.name = name, !.source = source,
                           !.autoStart = autoStart, !.valueFiles = valueFiles,
                           !.rt0 = rt, !.dir0 = dirExists]
       IN  IF op \in {"template", "up"} THEN ap' = renderStart(a)
           ELSE IF name = <<>> THEN ap' = appReturn(a, "release name is required")
           ELSE ap' = [a EXCEPT !.pc = "loadmeta"]
    /\ UNCHANGED <<storeVars, df, vb, cl, mf, rt, rn>>

\* the context is cancelled while the workflow runs
appCancel ==
    /\ ap.pc \notin {"idle", "done"}
    /\ ap.ctx = "live"
    /\ ap' = [ap EXCEPT !.ctx = "cancelled"]
    /\ cl' = [cl EXCEPT !.ctx = "cancelled"]
    /\ mf' = [mf EXCEPT !.ctx = "cancelled"]
    /\ rn' = [rn EXCEPT !.ctx = "cancelled"]
    /\ UNCHANGED <<storeVars, df, vb, rt>>

\* app.go:146, 184, 328: ReleaseStore.Load is called
appLoadMeta ==
    /\ ap.pc = "loadmeta"
    /\ LoadCall(ap.ctx, RuntimeDir)
    /\ ap' = [ap EXCEPT !.pc = "loading"]
    /\ UNCHANGED <<df, vb, cl, mf, rt, rn>>

\* an installed release installed again
installExistsNever(meta) == FALSE

\* app.go:150
installExists(meta) == meta # <<>>

\* the stored chart source preferred to the one given
resolveChartSourceStored(given, meta) ==
    IF meta # <<>> /\ meta[1].ChartSource # <<>> THEN [src |-> meta[1].ChartSource, err |-> ""]
    ELSE IF given # <<>> THEN [src |-> given, err |-> ""]
    ELSE [src |-> <<>>, err |-> "--chart is required"]

\* app.go:319, 334-343
resolveChartSource(given, meta) ==
    IF given # <<>> THEN [src |-> given, err |-> ""]
    ELSE IF meta = <<>> THEN [src |-> <<>>, err |-> "--chart is required"]
    ELSE IF meta[1].ChartSource = <<>>
    THEN [src |-> <<>>, err |-> "chart source is unknown"]
    ELSE [src |-> meta[1].ChartSource, err |-> ""]

\* down whenever docker-compose.yaml is there
downFirstAnyCompose(existingMeta, runtime) == runtime.compose # <<>>

\* app.go:190-193: the release has metadata and its docker-compose.yaml exists
downFirst(existingMeta, runtime) == existingMeta # <<>> /\ runtime.compose # <<>>

\* app.go:147-152, 185-200, 329-343: Load has returned
appMetaLoaded ==
    /\ ap.pc = "loading"
    /\ ld.pc = "done"
    /\ IF ld.err # "" THEN
            ap' = appReturn(ap, IF ap.op = "diff" THEN "load current release metadata"
                                ELSE "check existing release")
       ELSE IF ap.op = "install" THEN
            IF installExists(ld.res) THEN ap' = appReturn(ap, "release already exists")
            ELSE ap' = renderStart(ap)
       ELSE IF ap.op = "apply" THEN
            IF downFirst(ld.res, rt) THEN ap' = [ap EXCEPT !.pc = "down"]
            ELSE ap' = renderStart(ap)
       ELSE LET r == resolveChartSource(ap.source, ld.res)
            IN  IF r.err # "" THEN ap' = appReturn(ap, r.err)
                ELSE ap' = [ap EXCEPT !.pc = "chart", !.chartSource = r.src]
    /\ UNCHANGED <<storeVars, df, vb, cl, mf, rt, rn>>

\* app.go:195-198: docker compose down
appDown ==
    /\ ap.pc = "down"
    /\ runnerRun(ap.ctx, RuntimeDir, <<"down">>)
    /\ ap' = [ap EXCEPT !.pc = "downing", !.did = @ \cup {"down"}]
    /\ UNCHANGED <<storeVars, df, vb, cl, mf, rt>>

\* app.go:195, 202: the result of down is dropped and the release rendered
appDowned ==
    /\ ap.pc = "downing"
    /\ rn.pc = "done"
    /\ ap' = renderStart(ap)
    /\ rn' = IdleRunner
    /\ UNCHANGED <<storeVars, df, vb, cl, mf, rt>>

\* app.go:346, 411: ChartLoader.Load is called
appLoadChart ==
    /\ ap.pc = "chart"
    /\ loadChartCall(ap.ctx, ap.chartSource)
    /\ ap' = [ap EXCEPT !.pc = "charting"]
    /\ UNCHANGED <<storeVars, df, vb, mf, rt, rn>>

\* app.go:347-351, 412-416: the chart is loaded, buildValues is called
appChartLoaded ==
    /\ ap.pc = "charting"
    /\ cl.pc = "done"
    /\ IF cl.err # ""
       THEN ap' = appReturn(ap, "load chart") /\ vb' = vb
       ELSE /\ ap' = [ap EXCEPT !.pc = "values"]
            /\ vb' = [IdleValues EXCEPT
                        !.pc = "call", !.chart = <<KeyA :> Scalar("1")>>,
                        !.base0 = <<KeyA :> Scalar("1")>>,
                        !.files = SubSeq(ValuesFilePaths, 1, Len(ap.valueFiles)),
                        !.disk = ap.valueFiles]
    /\ UNCHANGED <<storeVars, df, cl, mf, rt, rn>>

\* templating.Engine.RenderComposeFragments and RenderFiles: one fragment for
\* each compose template of the chart, or the error of a template; a cancelled
\* context fails the render (section 5)
renderTemplates(ctx, names) ==
    {[ok |-> FALSE, out |-> {}]} \cup
        (IF ctx = "cancelled" THEN {} ELSE {[ok |-> TRUE, out |-> names]})

\* app.go:435
noFragments(fragments) == fragments = {}

\* app.go:352-369, 417-437: the values are built, the compose templates rendered
appRenderCompose ==
    /\ ap.pc = "values"
    /\ vb.pc = "done"
    /\ IF vb.err # "" THEN ap' = appReturn(ap, vb.err)
       ELSE \E r \in renderTemplates(ap.ctx, cl.chart.compose) :
            IF ~r.ok THEN ap' = appReturn(ap, "render compose templates")
            ELSE IF ap.op # "diff" /\ noFragments(r.out)
            THEN ap' = appReturn([ap EXCEPT !.fragments = <<r.out>>],
                                 "chart produced no compose templates")
            ELSE ap' = [ap EXCEPT !.pc = "files", !.fragments = <<r.out>>]
    /\ UNCHANGED <<storeVars, df, vb, cl, mf, rt, rn>>

\* app.go:371-376, 439-444: the files are rendered, mergeFragments is called
appRenderFiles ==
    /\ ap.pc = "files"
    /\ \E r \in renderTemplates(ap.ctx, cl.chart.files) :
        IF ~r.ok
        THEN ap' = appReturn(ap, "render file templates") /\ mf' = mf
        ELSE /\ ap' = [ap EXCEPT !.pc = "merging", !.files = <<r.out>>]
             /\ mergeCall(ap.ctx, ap.fragments[1], r.out, ap.name)
    /\ UNCHANGED <<storeVars, df, vb, cl, rt, rn>>

\* every workflow writing what it merged
afterMergeWrite(op) == "write"

\* app.go:381-400, 449-462: DiffRelease goes on to read the current release and
\* show the diff, renderRelease to write the runtime directory
afterMerge(op) == IF op = "diff" THEN "show" ELSE "write"

\* app.go:377-379, 445-447: mergeFragments has returned
appMerged ==
    /\ ap.pc = "merging"
    /\ mf.pc = "done"
    /\ LET a == [ap EXCEPT !.did = @ \cup (IF mf.ran # <<>> THEN {"config"} ELSE {})]
       IN  IF mf.err # "" THEN ap' = appReturn(a, mf.err)
           ELSE ap' = [a EXCEPT !.pc = afterMerge(ap.op)]
    /\ UNCHANGED <<storeVars, df, vb, cl, mf, rt, rn>>

\* app.go:381-400: the current manifest and files are read, the diff is shown
appShowDiff ==
    /\ ap.pc = "show"
    /\ IF ld.res # <<>> /\ rt.compose = <<>>
       THEN ap' = appReturn(ap, "read current compose file")
       ELSE \/ ap' = appReturn([ap EXCEPT !.did = @ \cup {"show"}], "")
            \/ /\ ld.res # <<>>
               /\ ap' = appReturn(ap, "load current files")
    /\ UNCHANGED <<storeVars, df, vb, cl, mf, rt, rn>>

\* runtime.Writer.Write: docker-compose.yaml and files/ are written under the
\* release's directory, all of them or, when the write fails or the context is
\* cancelled (section 5), none
runtimeWrite(ctx) == {FALSE} \cup (IF ctx = "cancelled" THEN {} ELSE {TRUE})

\* app.go:449-462
appWrite ==
    /\ ap.pc = "write"
    /\ \E ok \in runtimeWrite(ap.ctx) :
        IF ok
        THEN /\ ap' = [ap EXCEPT !.pc = "save", !.did = @ \cup {"write"}]
             /\ rt' = Written("this", mf.out[1], ap.files[1])
             /\ dirExists' = TRUE
        ELSE /\ ap' = appReturn(ap, "write runtime directory")
             /\ UNCHANGED <<rt, dirExists>>
    /\ UNCHANGED <<clock, links, inodes, initial, sv, ld, df, vb, cl, mf, rn>>

\* app.go:464-471
renderMetadata(a) ==
    [ReleaseName |-> a.name, ChartMetadata |-> cl.chart.Metadata,
     ChartSource |-> a.source, ChartDigest |-> <<>>, RuntimePath |-> "",
     CreatedAt |-> ZeroTime, Values |-> <<deepCopyMap(vb.ret[1].values).tree>>,
     ValuesSources |-> vb.ret[1].sources, ComposeFiles |-> mf.names]

\* app.go:473: ReleaseStore.Save is called
appSave ==
    /\ ap.pc = "save"
    /\ SaveCall("s1", ap.ctx, RuntimeDir, TRUE, renderMetadata(ap))
    /\ ap' = [ap EXCEPT !.pc = "saving"]
    /\ UNCHANGED <<df, vb, cl, mf, rt, rn>>

\* app.go:474-477 and 156-161, 204-209, 220, 226-228: Save has returned, and
\* with it renderRelease
appSaved ==
    /\ ap.pc = "saving"
    /\ sv["s1"].pc = "done"
    /\ IF sv["s1"].err # "" THEN ap' = appReturn(ap, "save release metadata")
       ELSE IF ap.op = "up" \/ (ap.op \in {"install", "apply"} /\ ap.autoStart)
       THEN ap' = [ap EXCEPT !.pc = "up", !.did = @ \cup {"save"}]
       ELSE ap' = appReturn([ap EXCEPT !.did = @ \cup {"save"}], "")
    /\ UNCHANGED <<storeVars, df, vb, cl, mf, rt, rn>>

\* app.go:162-166, 210-214, 229-236: docker compose up, detached after an
\* install or an apply
appUp ==
    /\ ap.pc = "up"
    /\ runnerRun(ap.ctx, RuntimeDir,
                 IF ap.op = "up" THEN <<"up">> ELSE <<"up", "-d">>)
    /\ ap' = [ap EXCEPT !.pc = "upping", !.did = @ \cup {"up"}]
    /\ UNCHANGED <<storeVars, df, vb, cl, mf, rt>>

\* part_003:79-82: the result of up is the result of the workflow
appUpped ==
    /\ ap.pc = "upping"
    /\ rn.pc = "done"
    /\ ap' = appReturn(ap, IF rn.err = "" THEN "" ELSE "docker compose")
    /\ rn' = IdleRunner
    /\ UNCHANGED <<storeVars, df, vb, cl, mf, rt>>

AppValueFiles ==
    {<<>>, <<FileOf("unreadable", NoKeys)>>, <<FileOf("map", KeyA :> Scalar("2"))>>}

AppSources == {<<>>, <<"charts/app">>, <<"HTTP://", "host/app", ".zip">>}

PipeIdle ==
    /\ vb = IdleValues
    /\ cl = IdleChartLoad
    /\ mf = IdleMerge
    /\ ap = IdleApp
    /\ rt = NoRuntime
    /\ rn = IdleRunner

(***************************************************************************)
(* Specifications                                                          *)
(***************************************************************************)
Init == StoreInit /\ df = IdleDiff /\ PipeIdle

\* one Save, with a Load at any point of it
Next ==
    \/ SaveAny("s1") /\ UNCHANGED <<df, vb, cl, mf, ap, rt, rn>>
    \/ SaveStep("s1") /\ UNCHANGED <<df, vb, cl, mf, ap, rt, rn>>
    \/ LoadAny /\ UNCHANGED <<df, vb, cl, mf, ap, rt, rn>>
    \/ LoadRead /\ UNCHANGED <<df, vb, cl, mf, ap, rt, rn>>

Spec == Init /\ [][Next]_vars

\* two Saves of the same runtime directory, interleaved at will
RaceNext ==
    \E p \in Savers :
        \/ SaveAny(p) /\ UNCHANGED <<df, vb, cl, mf, ap, rt, rn>>
        \/ SaveStep(p) /\ UNCHANGED <<df, vb, cl, mf, ap, rt, rn>>

RaceSpec == Init /\ [][RaceNext]_vars

\* two calls of Save up to the digest (lines 63-80), on any pair of records
DigestMetas ==
    {MkMeta(n, ch, t, x) :
        n \in {<<"a">>, <<"b">>}, ch \in {ChartOne, ChartTwo},
        t \in {ZeroTime, SubSecond, [SubSecond EXCEPT !.nsec = 0]}, x \in Extras}

DigestNext ==
    \E p \in Savers, ctx \in Contexts, path \in {"", "r1", "r2"}, hasMeta \in BOOLEAN,
       m \in DigestMetas :
        SaveCall(p, ctx, path, hasMeta, m) /\ UNCHANGED <<df, vb, cl, mf, ap, rt, rn>>

\* nothing on disk, no call made yet
QuietInit == Init /\ ~dirExists

DigestSpec == QuietInit /\ [][DigestNext]_vars

DiffInit == StoreInit /\ ~dirExists /\ df \in DiffInputs /\ PipeIdle

DiffNext == showNewRelease \/ showChanges

DiffSpec == DiffInit /\ [][DiffNext]_vars

\* one build of values on any chart, values files and inline overrides
ValuesInit ==
    /\ StoreInit /\ ~dirExists /\ df = IdleDiff
    /\ vb \in ValuesInputs
    /\ cl = IdleChartLoad /\ mf = IdleMerge /\ ap = IdleApp /\ rt = NoRuntime
    /\ rn = IdleRunner

ValuesNext ==
    \/ buildValuesStart
    \/ buildValuesFile
    \/ buildValuesSet
    \/ buildValuesValidate

ValuesSpec == ValuesInit /\ [][ValuesNext]_vars


\* a chart load and a fragment merge, each on any input
TempInit == Init /\ ~dirExists

TempNext ==
    \/ /\ \E ctx \in {"live", "cancelled"}, source \in ChartSources :
            loadChartCall(ctx, source)
       /\ UNCHANGED <<storeVars, df, vb, mf, ap, rt, rn>>
    \/ loadChartStep({PackedArchive}) /\ UNCHANGED <<storeVars, df, vb, mf, ap, rt, rn>>
    \/ /\ \E ctx \in {"live", "cancelled"}, fragments \in SUBSET Range(ComposeTemplates),
             files \in SUBSET FilePaths :
            mergeCall(ctx, fragments, files, <<"a">>)
       /\ UNCHANGED <<storeVars, df, vb, cl, ap, rt, rn>>
    \/ mergeStep /\ UNCHANGED <<storeVars, df, vb, cl, ap, rt>>
    \/ runStep /\ UNCHANGED <<storeVars, df, vb, cl, mf, ap, rt>>

TempSpec == TempInit /\ [][TempNext]_vars

\* archives of every recognized extension, compressed or not; as entries: a
\* packaged chart, a chart at the root beside one in a directory, charts only
\* below hidden or OS-artifact directories, names that point out of the
\* extraction directory
ArchiveSources ==
    {<<"charts/app">>, <<"app", ".tgz">>, <<"app", ".tar", ".gz">>, <<"app", ".tar">>,
     <<"app", ".cpack">>, <<"app", ".CPack">>, <<"app", ".cpack", ".tgz">>,
     <<"http://", "host/app", ".tgz">>}

Archives ==
    {<<>>,
     PackedArchive,
     <<File(<<<<"a">>, <<"Chart.yaml">>>>), File(<<<<"Chart.yaml">>>>)>>,
     <<File(<<<<"a">>, <<"CHART.YAML">>>>), File(<<<<"B">>, <<"Chart.yaml">>>>)>>,
     <<File(<<<<"B">>, <<"a">>>>), File(<<<<"Chart.yaml">>>>)>>,
     <<File(<<<<"B">>, <<"Chart.yaml">>>>), File(<<<<"Chart.yaml">>>>)>>,
     <<File(<<<<".", "git">>, <<"Chart.yaml">>>>)>>,
     <<File(<<<<"._", "a">>, <<"Chart.yaml">>>>)>>,
     <<File(<<<<".DS_Store">>, <<"Chart.yaml">>>>)>>,
     <<File(<<<<"__MACOSX">>, <<"Chart.yaml">>>>)>>,
     <<File(<<<<".">>, <<"__MACOSX">>, <<"Chart.yaml">>>>)>>,
     <<File(<<<<"a">>, <<"__MACOSX">>, <<"Chart.yaml">>>>)>>,
     <<File(<<<<"..">>, <<"evil">>>>), File(<<<<"Chart.yaml">>>>)>>,
     <<Directory(<<<<"a">>, <<"..">>, <<"..">>, <<"..">>, <<"etc">>, <<>>>>),
       File(<<<<"Chart.yaml">>>>)>>,
     <<File(<<<<>>, <<"etc">>, <<"evil">>>>), File(<<<<"Chart.yaml">>>>)>>,
     <<File(<<<<"a">>>>), File(<<<<"a">>, <<"Chart.yaml">>>>)>>}

ArchiveNext ==
    \/ /\ \E ctx \in {"live", "cancelled"}, source \in ArchiveSources :
            loadChartCall(ctx, source)
       /\ UNCHANGED <<storeVars, df, vb, mf, ap, rt, rn>>
    \/ loadChartStep(Archives) /\ UNCHANGED <<storeVars, df, vb, mf, ap, rt, rn>>

ArchiveSpec == TempInit /\ [][ArchiveNext]_vars

\* one operation of the compose Runner on any arguments
RunnerArgs == {<<>>, <<"down">>, <<"up">>, <<"up", "-d">>}

RunnerPaths == {<<>>, <<"00-app.yaml">>, <<"00-app.yaml", "10-db.yaml">>,
                <<"00-app.yaml", "10-db.yaml", "9-web.yaml">>}

RunnerNext ==
    \/ /\ \E ctx \in {"live", "cancelled"}, dir \in {"", RuntimeDir},
             args \in RunnerArgs :
            runnerRun(ctx, dir, args)
       /\ UNCHANGED <<storeVars, df, vb, cl, mf, ap, rt>>
    \/ /\ \E ctx \in {"live", "cancelled"}, paths \in RunnerPaths,
             project \in {<<>>, <<"a">>, <<"b">>} :
            runnerMergeFragments(ctx, MergeTempDir, paths, project)
       /\ UNCHANGED <<storeVars, df, vb, cl, mf, ap, rt>>
    \/ runPrimary /\ UNCHANGED <<storeVars, df, vb, cl, mf, ap, rt>>
    \/ runFallback /\ UNCHANGED <<storeVars, df, vb, cl, mf, ap, rt>>

RunnerSpec == TempInit /\ [][RunnerNext]_vars


\* the release before the workflow: none, one that an earlier render left, with
\* or without a known chart source, or a directory with a corrupt release.json
AppInit ==
    /\ clock = [year |-> 2025, sec |-> 1, nsec |-> 0]
    /\ initial \in {<<>>, <<Garbage>>, <<MarshalIndent(OldMeta)>>,
                    <<MarshalIndent(OldMetaNoSource)>>}
    /\ dirExists \in BOOLEAN
    /\ dirExists \/ initial = <<>>
    /\ links = [n \in {FinalName, "temp"} |->
                    IF n = FinalName /\ initial # <<>> THEN 1 ELSE 0]
    /\ inodes = [i \in InodeIds |-> IF i = 1 /\ initial # <<>> THEN initial[1] ELSE <<>>]
    /\ sv = [p \in Savers |-> IdleSaver]
    /\ ld = IdleLoader
    /\ df = IdleDiff
    /\ vb = IdleValues /\ cl = IdleChartLoad /\ mf = IdleMerge /\ ap = IdleApp
    /\ rn = IdleRunner
    /\ rt \in {NoRuntime, OldRuntime}
    /\ dirExists \/ rt = NoRuntime
    /\ initial # <<>> /\ initial # <<Garbage>> => rt = OldRuntime

\* one workflow on one release, cancelled at any point or not at all
AppNext ==
    \/ \E op \in Workflows, ctx \in {"live", "cancelled"}, name \in {<<>>, <<"a">>},
          source \in AppSources, autoStart \in BOOLEAN, valueFiles \in AppValueFiles :
            appCall(op, ctx, name, source, autoStart, valueFiles)
    \/ appCancel
    \/ appLoadMeta
    \/ LoadRead /\ UNCHANGED <<df, vb, cl, mf, ap, rt, rn>>
    \/ appMetaLoaded
    \/ appDown
    \/ appDowned
    \/ appLoadChart
    \/ loadChartStep({PackedArchive}) /\ UNCHANGED <<storeVars, df, vb, mf, ap, rt, rn>>
    \/ appChartLoaded
    \/ ValuesNext
    \/ appRenderCompose
    \/ appRenderFiles
    \/ mergeStep /\ UNCHANGED <<storeVars, df, vb, cl, ap, rt>>
    \/ runStep /\ UNCHANGED <<storeVars, df, vb, cl, mf, ap, rt>>
    \/ appMerged
    \/ appShowDiff
    \/ appWrite
    \/ appSave
    \/ SaveStep("s1") /\ UNCHANGED <<df, vb, cl, mf, ap, rt, rn>>
    \/ appSaved
    \/ appUp
    \/ appUpped

AppSpec == AppInit /\ [][AppNext]_vars


(***************************************************************************)
(* Claims                                                                  *)
(***************************************************************************)
S1 == sv["s1"]

LoadReturned == ld.pc = "done" /\ ld.path # ""

AbsentResult == ld.res = <<>> /\ ld.err = ""

\* release.json was there at the call, and was not read or does not parse
Unusable == ld.saw = "present" /\ (ld.read = <<>> \/ ~UnmarshalOK(ld.read[1]))

\* C1 as stated: Load on a non-empty runtime path returns an absent result whenever
\* release.json does not exist there, and an error when it exists but cannot be
\* read or parsed.
C1_AbsentWheneverMissing ==
    LoadReturned =>
        /\ ld.saw = "absent" => AbsentResult
        /\ Unusable => ld.err # ""

\* C1 as amended: with a context that is not cancelled, Load returns an absent
\* result whenever release.json does not exist there and the lookup is not refused;
\* an absent result is returned only when release.json does not exist; and Load
\* returns an error when release.json exists but cannot be read or parsed.
C1_AbsentIffMissing ==
    LoadReturned =>
        /\ (ld.saw = "absent" /\ ld.err # "context canceled" /\ ld.errno # "EACCES")
                => AbsentResult
        /\ AbsentResult => ld.saw = "absent"
        /\ Unusable => ld.err # ""

\* a Load of a runtime directory that does not exist returned an absent result
C1_Witness ==
    LoadReturned /\ ~dirExists /\ ld.errno = "ENOENT" /\ AbsentResult

ValidUTF8(str) == \A i \in 1..Len(str) : str[i] # "xFF"

\* a Load that was called after Save returned nil, and that was neither cancelled
\* nor refused by the file system
LoadAfterSave ==
    /\ LoadReturned
    /\ ld.after
    /\ ld.err \notin {"context canceled", "read release metadata"}

RoundTrip ==
    /\ ld.res # <<>>
    /\ LET r == ld.res[1]
       IN  /\ r.ChartDigest = S1.meta.ChartDigest
           /\ r.ReleaseName = S1.meta.ReleaseName
           /\ r.ChartMetadata = S1.meta.ChartMetadata
           /\ r.CreatedAt = S1.meta.CreatedAt
           /\ Digest(r).ChartDigest = r.ChartDigest

Digested(p) == sv[p].pc = "mkdir"

FiveFields(m) ==
    <<m.ReleaseName, m.ChartMetadata.Name, m.ChartMetadata.Version,
      m.ChartMetadata.Description, m.CreatedAt>>

\* C3: two Saves whose records agree on release name, chart name, version and
\* description and creation time put the same digest in them, whatever the rest.
C3_DigestDeterministic ==
    \A p, q \in Savers :
        (Digested(p) /\ Digested(q) /\ FiveFields(sv[p].meta) = FiveFields(sv[q].meta))
            => sv[p].meta.ChartDigest = sv[q].meta.ChartDigest

\* two records that agree on the five fields and differ in everything else
C3_Witness ==
    /\ Digested("s1") /\ Digested("s2")
    /\ FiveFields(sv["s1"].meta) = FiveFields(sv["s2"].meta)
    /\ sv["s1"].meta.ChartSource # sv["s2"].meta.ChartSource
    /\ sv["s1"].meta.Values # sv["s2"].meta.Values
    /\ sv["s1"].path # sv["s2"].path
    /\ sv["s1"].arg.ChartDigest # sv["s2"].arg.ChartDigest
    /\ sv["s1"].meta.ChartDigest = sv["s2"].meta.ChartDigest

\* C4: two Saves whose records differ in the creation time only put different
\* digests in them, for every pair of distinct creation times.
C4_DistinctTimesDistinctDigests ==
    \A p, q \in Savers :
        (/\ Digested(p) /\ Digested(q)
         /\ sv[p].meta.ReleaseName = sv[q].meta.ReleaseName
         /\ sv[p].meta.ChartMetadata = sv[q].meta.ChartMetadata
         /\ sv[p].meta.CreatedAt # sv[q].meta.CreatedAt)
            => sv[p].meta.ChartDigest # sv[q].meta.ChartDigest

\* C5: a Load concurrent with one Save reads nothing, the release.json that was
\* there before the Save, or the complete serialization the Save wrote.
C5_LoadNeverSeesPartialFile ==
    (ld.pc = "done" /\ ld.read # <<>>) =>
        \/ initial # <<>> /\ ld.read[1] = initial[1]
        \/ S1.data # <<>> /\ ld.read[1] = S1.data /\ UnmarshalOK(S1.data)

\* a Load that was called while Save was writing its temporary file read a file
C5_Witness ==
    ld.pc = "done" /\ ld.svpc = "write" /\ ld.read # <<>> /\ ld.err = ""

\* C6: whenever release.json exists it holds the content it had before the Saves
\* or the complete serialization of one of the two racing Saves.
C6_FinalAlwaysComplete ==
    links[FinalName] # 0 =>
        LET c == inodes[links[FinalName]]
        IN  \/ initial # <<>> /\ c = initial[1]
            \/ \E p \in Savers : sv[p].data # <<>> /\ c = sv[p].data

HasValues(c) == \E i \in 1..Len(c) : c[i].k = "values"

\* C7: after a successful Save, release.json holds no values.
C7_NoValuesOnDisk ==
    (S1.pc = "done" /\ S1.err = "") =>
        /\ links[FinalName] # 0
        /\ ~HasValues(inodes[links[FinalName]])
        /\ Unmarshal(inodes[links[FinalName]]).Values = <<>>

\* a record with values was saved
C7_Witness == S1.pc = "done" /\ S1.err = "" /\ S1.arg.Values # <<>>

\* C8: when Save returns, the Values of the caller's record are those it had
\* at the call.
C8_ValuesRestored ==
    \A p \in Savers : sv[p].pc = "done" => sv[p].meta.Values = sv[p].arg.Values

\* a Save of a record with values failed at the rename, after the values were blanked
C8_Witness ==
    S1.pc = "done" /\ S1.err = "rename metadata file" /\ S1.arg.Values # <<>>

Reported(s, suffix) == \E i \in 1..Len(df.affected) : df.affected[i] = <<s, suffix>>

InOld(s) == s \in extractServiceNames(df.cur)
InNew(s) == s \in extractServiceNames(df.new)

Listed(q, p) == \E i \in 1..Len(q) : q[i] = p

InCur(p) == df.curFiles # <<>> /\ p \in DOMAIN df.curFiles[1]
InCand(p) == p \in DOMAIN df.newFiles[1]

\* C10: a path is reported added iff only the candidate files have it, removed iff
\* only the current files have it, modified iff both have it with different bytes,
\* and not reported iff both have it with equal bytes; the three sets are disjoint.
C10_FileClasses ==
    df.pc = "done" =>
        \A p \in FilePaths :
            /\ Listed(df.added, p) <=> (InCand(p) /\ ~InCur(p))
            /\ Listed(df.removed, p) <=> (InCur(p) /\ ~InCand(p))
            /\ Listed(df.modified, p) <=>
                    (InCur(p) /\ InCand(p) /\ df.curFiles[1][p] # df.newFiles[1][p])
            /\ ~(Listed(df.added, p) /\ Listed(df.removed, p))
            /\ ~(Listed(df.added, p) /\ Listed(df.modified, p))
            /\ ~(Listed(df.removed, p) /\ Listed(df.modified, p))

\* a diff with one file modified and one removed
C10_Witness == df.pc = "done" /\ df.modified # <<>> /\ df.removed # <<>>

\* the node a tree holds at a path, if it holds one
RECURSIVE NodeAt(_, _)
NodeAt(tree, path) ==
    IF path = <<>> \/ path[1] \notin DOMAIN tree THEN <<>>
    ELSE IF Len(path) = 1 THEN <<tree[path[1]]>>
    ELSE IF tree[path[1]].kind = "map" THEN NodeAt(tree[path[1]].m, Tail(path))
    ELSE <<>>

\* a layer touches a path when it holds a node there, or a node that is not a
\* mapping on the way there
RECURSIVE Touches(_, _)
Touches(tree, path) ==
    /\ path # <<>>
    /\ path[1] \in DOMAIN tree
    /\ \/ Len(path) = 1
       \/ tree[path[1]].kind # "map"
       \/ Touches(tree[path[1]].m, Tail(path))

IsLeaf(n) == n # <<>> /\ n[1].kind # "map"

KeyPaths == {<<k>> : k \in {KeyA, KeyD}} \cup {<<KeyA, k>> : k \in {KeyB, KeyC}}

DottedAB == <<"a", ".", "b">>

\* the overrides set a.b and not a itself, and a was a scalar before them
OverrideOnScalar ==
    /\ vb.pc \in {"validate", "done"}
    /\ vb.before # <<>>
    /\ DottedAB \in DOMAIN vb.set /\ KeyA \notin DOMAIN vb.set
    /\ IsLeaf(NodeAt(vb.before[1], <<KeyA>>))

C13_RightBiasedLayers ==
    /\ vb.chart = vb.base0
    /\ vb.pc = "done" /\ vb.ret # <<>> =>
        \A p \in KeyPaths : \A i \in 1..Len(vb.layers) :
            (/\ IsLeaf(NodeAt(vb.layers[i], p))
             /\ \A j \in (i + 1)..Len(vb.layers) : ~Touches(vb.layers[j], p))
            => NodeAt(vb.ret[1].values, p) = NodeAt(vb.layers[i], p)

\* three layers: the values file replaces a.b and keeps a.c, the override wins
C13_Witness ==
    /\ vb.pc = "done" /\ vb.ret # <<>> /\ Len(vb.layers) = 4 /\ vb.writeThrough
    /\ vb.layers[1] = (KeyA :> Map((KeyB :> Scalar("1")) @@ (KeyC :> List("L1"))))
    /\ vb.layers[2] = (KeyA :> Map(KeyB :> Scalar("2")))
    /\ vb.ret[1].values =
            (KeyA :> Map((KeyB :> Scalar("9")) @@ (KeyC :> List("L1"))))

\* the provenance the arguments call for
ExpectedSources ==
    <<"chart:values.yaml">> \o vb.files
        \o (IF DOMAIN vb.set # {} THEN <<"cli:set">> ELSE <<>>)

\* C14: a build that succeeds returns the provenance list: the chart defaults,
\* the values files in the order given, then one entry for the inline overrides
\* iff there is at least one; its entries are the layers merged, one each; a
\* build that fails returns no list.
C14_ProvenanceInMergeOrder ==
    vb.pc = "done" =>
        /\ vb.err = "" <=> vb.ret # <<>>
        /\ vb.ret # <<>> =>
            /\ vb.ret[1].sources = ExpectedSources
            /\ Len(vb.ret[1].sources) = Len(vb.layers)

C14_Witness ==
    /\ vb.pc = "done" /\ vb.ret # <<>>
    /\ vb.ret[1].sources = <<"chart:values.yaml", "f1", "f2", "cli:set">>

\* C15: when the chart load has returned, the downloaded file and the
\* extraction directory are gone, and when the fragment merge has returned, its
\* scratch directory and all it held are gone, whether the call succeeded or
\* failed.
C15_TemporariesRemoved ==
    /\ cl.pc = "done" => ~cl.tmpFile /\ ~cl.tmpDir
    /\ mf.pc = "done" => ~mf.tempDir /\ mf.scratch = {}

\* a failed load that had downloaded and extracted, a failed merge that had
\* written its scratch directory
C15_Witness ==
    /\ cl.pc = "done" /\ cl.err # "" /\ cl.madeFile /\ cl.madeDir
    /\ mf.pc = "done" /\ mf.err # "" /\ mf.made /\ mf.ran # <<>>

\* the download of a URL source is over: it failed, or the file is in place
DownloadOver == isURL(cl.source) /\ (cl.pc = "done" \/ cl.deferFile)

URLSchemes == {"http://", "HTTP://", "Https://"}

\* a source with a scheme is downloaded, and a downloaded file is loaded as an
\* archive whatever the source's extension
DownloadedAsArchive ==
    /\ cl.pc # "idle" /\ cl.source # <<>> /\ cl.source[1] \in URLSchemes =>
            cl.pc = "request" \/ cl.transport # ""
    /\ cl.deferFile /\ cl.pc # "stat" => cl.archive = TempArchive

FinalContent == IF links[FinalName] # 0 THEN <<inodes[links[FinalName]]>> ELSE <<>>

\* docker-compose.yaml, files/ and release.json are as they were at the call
ReleaseUntouched == rt = ap.rt0 /\ FinalContent = initial

\* no chart loaded, nothing rendered, merged, written or saved, no compose run
NothingStarted ==
    /\ cl.pc = "idle" /\ vb.pc = "idle" /\ mf.pc = "idle" /\ sv["s1"].pc = "idle"
    /\ ap.fragments = <<>> /\ ap.did = {}

\* the compose templates were rendered and gave no fragment
ZeroFragments == ap.fragments = <<{}>>

\* C11: a workflow (install, apply, template, up, diff) whose compose templates
\* render to no fragment returns an error; the compose runtime's config
\* operation is not run and gives no manifest, and the runtime directory and
\* release.json stay as they were.
C11_NoFragmentsIsAnError ==
    ZeroFragments =>
        /\ ap.pc = "done" => ap.err # ""
        /\ mf.ran = <<>> /\ mf.out = <<>>
        /\ ReleaseUntouched /\ dirExists = ap.dir0
        /\ sv["s1"].pc = "idle" /\ ap.did \subseteq {"down"}

\* a diff of a chart without compose templates, refused by the fragment merge
C11_Witness ==
    /\ ZeroFragments /\ ap.op = "diff" /\ ap.pc = "done"
    /\ mf.made /\ ap.err = "at least one compose fragment is required"

RenderWorkflows == {"install", "apply", "template", "up"}

\* the save of this render succeeded
SavedThis == sv["s1"].pc = "done" /\ sv["s1"].err = ""

\* C17: when a rendering workflow has returned an error, docker-compose.yaml,
\* files/ and release.json are all as they were before it or all those of this
\* render; a Save or a Load that returns the cancellation error has left the
\* record and the file system alone.
C17_NoPartialRender ==
    /\ ap.op \in RenderWorkflows /\ ap.pc = "done" /\ ap.err # "" =>
            \/ ReleaseUntouched
            \/ /\ rt.compose # <<>> /\ rt.compose[1].by = "this"
               /\ SavedThis /\ FinalContent = <<sv["s1"].data>>
    /\ sv["s1"].pc = "done" /\ sv["s1"].err = "context canceled" =>
            sv["s1"].meta = sv["s1"].arg /\ FinalContent = initial
    /\ ld.pc = "done" /\ ld.err = "context canceled" => FinalContent = initial

C19_TemplateLeavesReleaseAlone ==
    ap.op = "template" /\ ap.pc = "done" =>
        ReleaseUntouched /\ dirExists = ap.dir0

\* the metadata was loaded: a record or none
MetaLoaded == ld.pc = "done" /\ ld.err = ""

ConfigPaths == mf.ran[1]

\* C21: the fragment paths handed to the compose runtime's config operation are
\* the rendered fragments, each once, in ascending byte order of their names,
\* whatever order the range over the map of fragments took; the names listed
\* under composeFiles in the release.json that the render saved are that same
\* sequence.
C21_FragmentsInLexicalOrder ==
    /\ mf.ran # <<>> =>
            /\ Range(ConfigPaths) = mf.fragments
            /\ Len(ConfigPaths) = Cardinality(mf.fragments)
            /\ \A i, j \in DOMAIN ConfigPaths :
                    i < j => StringLess(ConfigPaths[i], ConfigPaths[j])
    /\ ap.pc = "done" /\ "save" \in ap.did =>
            /\ mf.ran # <<>>
            /\ UnmarshalOK(FinalContent[1])
            /\ Unmarshal(FinalContent[1]).ComposeFiles = ConfigPaths

\* a saved render of three fragments, where "10-..." sorts before "9-..."
C21_Witness ==
    /\ ap.pc = "done" /\ "save" \in ap.did
    /\ Unmarshal(FinalContent[1]).ComposeFiles
            = <<"00-app.yaml", "10-db.yaml", "9-web.yaml">>

\* a service of both manifests
InBoth(s) == InOld(s) /\ InNew(s)

\* the service's parsed value is the same in both manifests
SameContent(s) == ServicesOf(df.cur[1])[s] = ServicesOf(df.new[1])[s]

\* the service's sub-document is written differently in the two manifests
WrittenDifferently(s) ==
    SubDocumentText(df.cur[1], s) # SubDocumentText(df.new[1], s)

\* C22: when the texts of two manifests differ, a service of both whose parsed
\* content is the same and whose sub-document is written differently (key
\* order, quoting) is reported as modified.
C22_TextBasedComparison ==
    df.pc = "done" /\ df.cur # <<>> /\ df.cur[1] # df.new[1] =>
        \A s \in Range(ServiceNames) :
            InBoth(s) /\ SameContent(s) /\ WrittenDifferently(s) =>
                Reported(s, " (modified)")

\* C22 as the code has it: when the texts of two manifests differ, a service of
\* both is reported as modified exactly when its parsed content differs; one
\* whose sub-document is only written differently is not reported.
C22_ParsedComparison ==
    df.pc = "done" /\ df.cur # <<>> /\ df.cur[1] # df.new[1] =>
        \A s \in Range(ServiceNames) :
            InBoth(s) => (Reported(s, " (modified)") <=> ~SameContent(s))

\* one service with its keys in another order and not reported, beside one
\* whose content changed
C22_Witness ==
    /\ df.pc = "done" /\ df.cur # <<>> /\ df.cur[1] # df.new[1]
    /\ \E s, t \in Range(ServiceNames) :
        /\ InBoth(s) /\ SameContent(s) /\ WrittenDifferently(s)
        /\ SubDocumentText(df.cur[1], s)[1].key # SubDocumentText(df.new[1], s)[1].key
        /\ ~Reported(s, " (modified)")
        /\ Reported(t, " (modified)")

\* the line diff printed pair by pair from index i on: for a pair that differs, the
\* current line if there is one, then the candidate line if there is one
RECURSIVE PairwiseHunks(_, _, _)
PairwiseHunks(old, new, i) ==
    IF i > Len(old) /\ i > Len(new) THEN <<>>
    ELSE (IF i <= Len(old) /\ i <= Len(new) /\ old[i] = new[i] THEN <<>>
          ELSE (IF i <= Len(old) THEN <<<<"-", old[i]>>>> ELSE <<>>)
               \o (IF i <= Len(new) THEN <<<<"+", new[i]>>>> ELSE <<>>))
         \o PairwiseHunks(old, new, i + 1)

\* C23: the hunks printed for two differing texts (the manifests, and with
\* --show-files each modified file) are, index by index up to the longer
\* length, the current line as removed if the current text has that index and
\* then the candidate line as added if the candidate has it, for every index
\* where the two differ, an empty line included; nothing for equal pairs.
C23_PairwiseLineDiff ==
    df.pc = "done" /\ df.cur # <<>> =>
        /\ df.cur[1] # df.new[1] =>
                df.hunks = PairwiseHunks(df.cur[1], df.new[1], 1)
        /\ df.showFiles /\ df.curFiles # <<>> =>
                \A p \in DOMAIN df.fileHunks :
                    df.fileHunks[p] =
                        PairwiseHunks(SplitLines(df.curFiles[1][p], <<>>),
                                      SplitLines(df.newFiles[1][p], <<>>), 1)

\* an extension that packaged charts use, in any letter case
PackagedExtension(path) ==
    LET lower == ToLower(path)
    IN  \/ HasSuffix(lower, <<".tar", ".gz">>) \/ HasSuffix(lower, <<".tgz">>)
        \/ HasSuffix(lower, <<".cpack">>) \/ HasSuffix(lower, <<".cpack", ".tgz">>)

\* the archive was extracted and its chart root found
Extracted ==
    \/ cl.pc = "fsload"
    \/ cl.pc = "done" /\ cl.err \in {"", "invalid chart", "context canceled"}

\* C24: a gzip-compressed archive of a packaged chart, in a file that exists
\* under an extension packaged charts use (.tar.gz, .tgz, .cpack, .cpack.tgz,
\* in any letter case), is decompressed and extracted.
C24_GzipUnderEveryExtension ==
    /\ cl.encoding = "gzip" /\ cl.entries = PackedArchive
    /\ PackagedExtension(cl.archive)
    => Extracted

\* the extraction directory as extractArchive left it for findChartRoot
ExtractedDisk == extractArchive(BaseDisk, TempDest, cl.entries).disk

\* findChartRoot has run on the extracted archive
RootSearched ==
    /\ cl.encoding # "" /\ (gunzips(cl.archive) <=> cl.encoding = "gzip")
    /\ extractArchive(BaseDisk, TempDest, cl.entries).err = ""

\* a hidden or OS-artifact name: dot-prefixed (so "._" forks and .DS_Store), __MACOSX
HiddenName(seg) == seg = <<"__MACOSX">> \/ (seg # <<>> /\ Bytes(seg[1])[1] = 46)

\* the directories of the extracted archive, outside hidden and OS-artifact
\* entries, that hold the metadata file
ChartDirs ==
    {Dir(q) : q \in {f \in DOMAIN ExtractedDisk :
        /\ ExtractedDisk[f] = "file" /\ Under(f, TempDest)
        /\ EqualFold(Base(f), MetadataFile)
        /\ \A i \in (Len(TempDest) + 1)..Len(f) : ~HiddenName(f[i])}}

\* d comes before e in a depth-first lexical walk
WalkedBefore(d, e) ==
    LET differ == {i \in 1..Len(d) : i > Len(e) \/ d[i] # e[i]}
        first == CHOOSE i \in differ : \A j \in differ : i <= j
    IN  IF differ = {} THEN Len(d) < Len(e)
        ELSE first <= Len(e) /\ BytesLess(SegBytes(d[first]), SegBytes(e[first]))

\* C25: for an extracted archive the chart root is the first directory, in
\* depth-first lexical walk order, that holds the metadata file outside hidden
\* and OS-artifact entries; it is never such an entry or below one; the search
\* fails when there is no such directory.
C25_FirstVisibleChartRoot ==
    RootSearched =>
        IF ChartDirs = {}
        THEN cl.pc = "done" /\ cl.err = "chart archive missing Chart.yaml"
        ELSE /\ cl.root # <<>>
             /\ cl.root[1] \in ChartDirs
             /\ \A d \in ChartDirs \ {cl.root[1]} : WalkedBefore(cl.root[1], d)

\* C29: every directory and file that extractArchive creates lies under the
\* temporary destination directory, whatever the names of the entries ('..'
\* segments and absolute paths included), so that nothing the extraction
\* created is left once loadArchive has removed that directory.
C29_ExtractionStaysInside ==
    /\ \A q \in cl.created : Under(q, TempDest)
    /\ cl.pc = "done" => cl.created = {}

\* the first and the second subprocess of the operation
FirstCall == rn.calls[1]
SecondCall == rn.calls[2]

\* the result of run is the result of its last subprocess
ResultOf(call) == IF call.outcome = "ok" THEN "" ELSE call.outcome

\* C26: a compose-runtime operation whose arguments were accepted runs the
\* primary command (docker compose) exactly once; it runs the legacy command
\* (docker-compose) only after the primary one could not be found, once, with
\* the same arguments, working directory and project-name environment, and
\* returns its result; any other failure of the primary command is returned
\* without a second subprocess; there are never more than two.
C26_PrimaryThenFallbackOnce ==
    /\ Len(rn.calls) <= 2
    /\ rn.pc \in {"primary", "fallback"} <=> (rn.pc # "idle" /\ rn.pc # "done")
    /\ rn.pc = "primary" => rn.calls = <<>>
    /\ rn.pc = "fallback" => Len(rn.calls) = 1 /\ FirstCall.outcome = "not found"
    /\ rn.pc = "done" /\ rn.calls = <<>> =>
            rn.err \in {"at least one compose fragment is required",
                        "working directory is required",
                        "docker compose arguments are required"}
    /\ rn.calls # <<>> =>
            FirstCall.cmd = [Name |-> "docker", Args |-> <<"compose">> \o rn.args,
                             Dir |-> rn.dir, Env |-> composeEnv(rn.project)]
    /\ rn.pc = "done" /\ Len(rn.calls) = 1 =>
            FirstCall.outcome # "not found" /\ rn.err = ResultOf(FirstCall)
    /\ Len(rn.calls) = 2 =>
            /\ FirstCall.outcome = "not found"
            /\ SecondCall.cmd = [Name |-> "docker-compose", Args |-> rn.args,
                                 Dir |-> FirstCall.cmd.Dir, Env |-> FirstCall.cmd.Env]
            /\ rn.pc = "done" /\ rn.err = ResultOf(SecondCall)

\* a config of two fragments that the legacy command ran after docker was not found
C26_Witness ==
    /\ rn.pc = "done" /\ rn.err = "" /\ Len(rn.calls) = 2
    /\ SecondCall.cmd.Args = <<"-f", "00-app.yaml", "-f", "10-db.yaml", "config">>
    /\ SecondCall.cmd.Env # <<>>

\* the steps of ApplyRelease before renderRelease is entered
BeforeRender == ap.pc \in {"loadmeta", "loading", "down", "downing"}

\* a step that takes ApplyRelease past a finished down enters renderRelease,
\* whatever down returned
DownResultDropped ==
    ap.pc = "downing" /\ ap'.pc # "downing" =>
        rn.pc = "done" /\ ap' = renderStart(ap)

\* C27: ApplyRelease runs compose down, in the runtime directory, only for a
\* release that has metadata and a docker-compose.yaml, before anything is
\* written or saved, and goes on to render whatever down returned; it runs
\* compose up -d only with AutoStart set and after both the runtime write and
\* the metadata save succeeded, so a failure after down leaves no up.
C27_DownBeforeWriteUpAfterSave ==
    /\ [](ap.op = "apply" =>
            /\ BeforeRender => ap.did \subseteq {"down"} /\ rt = ap.rt0
                                /\ S1.pc = "idle"
            /\ "down" \in ap.did =>
                    ld.res # <<>> /\ ap.rt0.compose # <<>>
            /\ ap.pc = "downing" /\ rn.pc # "idle" =>
                    rn.args = <<"down">> /\ rn.dir = RuntimeDir
            /\ ap.pc \notin {"idle", "loadmeta", "loading", "down", "downing"}
                   /\ ld.err = "" /\ ld.res # <<>> /\ ap.rt0.compose # <<>> =>
                    "down" \in ap.did
            /\ "up" \in ap.did =>
                    /\ {"write", "save"} \subseteq ap.did
                    /\ ap.autoStart
                    /\ S1.pc = "done" /\ S1.err = ""
                    /\ rt = Written("this", mf.out[1], ap.files[1])
            /\ ap.pc = "upping" /\ rn.pc # "idle" =>
                    rn.args = <<"up", "-d">> /\ rn.dir = RuntimeDir
            /\ ap.pc = "done" /\ ap.err = "" /\ ap.autoStart => "up" \in ap.did
            /\ ap.pc = "done" /\ ~ap.autoStart => "up" \notin ap.did)
    /\ [][ap.op = "apply" => DownResultDropped]_vars

\* an apply on an existing release whose down failed, and which then wrote the
\* runtime directory, saved the metadata and started the release
C27_Witness ==
    /\ ap.op = "apply" /\ ap.pc = "done" /\ ap.err = ""
    /\ ap.did = {"down", "config", "write", "save", "up"}
    /\ ap.rt0 = OldRuntime /\ rt # OldRuntime

\* C28: DiffRelease leaves the release as it found it at every step and on
\* every return: the runtime directory and its contents and release.json are
\* unchanged, the runtime writer and the store's Save are never called, and
\* the only compose operation run is the config merge, in the temporary
\* directory of the fragments.
C28_DiffReadOnly ==
    ap.op = "diff" =>
        /\ rt = ap.rt0
        /\ dirExists = ap.dir0
        /\ FinalContent = initial
        /\ links["temp"] = 0
        /\ S1 = IdleSaver
        /\ ap.did \subseteq {"config", "show"}
        /\ ap.pc \notin {"down", "downing", "write", "save", "saving", "up", "upping"}
        /\ rn.pc \in {"primary", "fallback"} =>
                rn.args[Len(rn.args)] = "config" /\ rn.dir = MergeTempDir
        /\ \A i \in 1..Len(rn.calls) :
                LET cmd == rn.calls[i].cmd
                IN  cmd.Args[Len(cmd.Args)] = "config" /\ cmd.Dir = MergeTempDir

\* a diff shown for an existing release after the config merge ran
C28_Witness ==
    /\ ap.op = "diff" /\ ap.pc = "done" /\ ap.err = ""
    /\ ap.did = {"config", "show"}
    /\ ap.rt0 = OldRuntime /\ initial # <<>>

\* the inline overrides were built and merged
OverridesMerged == vb.pc \in {"validate", "done"} /\ vb.before # <<>>

\* C30: the mapping built from the inline overrides is the one that every
\* order of processing the key=value pairs gives, also when one dotted key is
\* a proper prefix of another (a together with a.b).
C30_OverridesOrderIndependent ==
    OverridesMerged =>
        \A q \in Orders(DOMAIN vb.set) :
            vb.layers[Len(vb.layers)] = assignInOrder(vb.set, q, NoKeys)

====
